---------------------------- MODULE Spec2Model ----------------------------
(***************************************************************************)
(* A model of sync_confluence_pages (src/migrate.py), the Confluence ->     *)
(* BookStack migration in shelf mode: phantom synthesis, book              *)
(* classification, the two duplicate-book reconciliation passes, book      *)
(* creation, the shelf membership update, the page -> book mapping, the     *)
(* caches and the node-processing loop, against a model of the BookStack   *)
(* workspace (books, chapters, pages, one shelf).                          *)
(*                                                                         *)
(* Names are tuples of tokens: a title t is <<t>>, the renamed chapter     *)
(* "Parent - Title" is <<parent, title>>, "Chapter - Title" is             *)
(* <<"Chapter", title>>. None is 0; destination ids start at 1.            *)
(*                                                                         *)
(* Beside it, each under a specification of its own:                       *)
(*   SpecCalls    the adaptive rate limiting and the retry of one          *)
(*                destination call, request by request; the delay is       *)
(*                exact, in units of 1/640 s                               *)
(*   SpecBoot     the configuration checks of main and of the head of      *)
(*                sync_confluence_pages                                    *)
(*   SpecMacros   _convert_confluence_macros_to_html                       *)
(*   SpecOrphans  delete_orphan_pages (src/delete_orphan_pages.py)         *)
(***************************************************************************)
EXTENDS Integers, Sequences, FiniteSets, TLC

\* ------------------------------------------------------------------ bounds
\* destination calls that may be answered with a failure in the first run
MaxFailures == 1
\* books another invocation may create while this run creates its books
MaxConcurrent == 1
\* consecutive runs over the same source data
MaxRuns == 2

\* destination calls of one run of the call model
MaxCalls == 2

\* rate-limit responses the destination gives in one run of the call model
Max429 == 7

\* pieces of markup in one input of the transcoder
MaxLen == 3

\* pages delete_orphan_pages examines in one run
MaxPages == 2

\* --------------------------------------------------- program constants
\* placeholder ids of a dry run ('dryrun_book_id', 'dryrun_chapter_id')
DryrunBookId == -1
DryrunChapterId == -2
\* pages with at most this many ancestors that have children become books
MaxBookDepth == 2

None == 0

\* _rate_limit_delay at import, in units of 1/640 s (0.1 s)
InitialRateLimitDelay == 64

\* _max_rate_limit_delay, in units of 1/640 s (1.0 s)
max_rate_limit_delay == 640

\* ------------------------------------------------------------- helpers
Last(s) == s[Len(s)]

Range(s) == {s[i] : i \in DOMAIN s}

\* str.lower() on one token
LowerTok(t) ==
    CASE t = "A" -> "a"
      [] t = "B" -> "b"
      [] t = "C" -> "c"
      [] t = "D" -> "d"
      [] t = "E" -> "e"
      [] t = "L" -> "l"
      [] t = "M" -> "m"
      [] t = "Chapter" -> "chapter"
      [] t = "Introduction" -> "introduction"
      [] OTHER -> t

\* str.lower() on a name
Lower(name) == [i \in DOMAIN name |-> LowerTok(name[i])]

RECURSIVE SortedIds(_)
\* the ids of a set in ascending order (the order the listing endpoints answer in)
SortedIds(S) ==
    IF S = {} THEN <<>>
    ELSE LET m == CHOOSE x \in S : \A y \in S : x <= y
         IN <<m>> \o SortedIds(S \ {m})

\* ------------------------------------------------------------ source data
Node(id, title, anc, owner) ==
    [id |-> id, title |-> title, ancestors |-> anc, owner |-> owner]

Ref(id, title) == [id |-> id, title |-> title]

\* The lists fetch_confluence_pages can answer with (one per scenario).
Sources ==
    << \* 1: the chain A -> B -> C
       << Node(1, "A", <<>>, 0),
          Node(2, "B", <<Ref(1, "A")>>, 0),
          Node(3, "C", <<Ref(1, "A"), Ref(2, "B")>>, 7) >>,
       \* 2: two leaves with one title under one root
       << Node(1, "A", <<>>, 0),
          Node(2, "L", <<Ref(1, "A")>>, 7),
          Node(3, "L", <<Ref(1, "A")>>, 0) >>,
       \* 3: a chain of five: node 4 has children at depth 3
       << Node(1, "A", <<>>, 0),
          Node(2, "B", <<Ref(1, "A")>>, 0),
          Node(3, "C", <<Ref(1, "A"), Ref(2, "B")>>, 0),
          Node(4, "D", <<Ref(1, "A"), Ref(2, "B"), Ref(3, "C")>>, 0),
          Node(5, "E", <<Ref(1, "A"), Ref(2, "B"), Ref(3, "C"), Ref(4, "D")>>, 7) >>,
       \* 4: one page whose two ancestors were not fetched
       << Node(3, "L", <<Ref(1, "A"), Ref(2, "B")>>, 0) >>,
       \* 5: a childless root next to a root with one child
       << Node(1, "A", <<>>, 0),
          Node(2, "B", <<>>, 0),
          Node(3, "L", <<Ref(2, "B")>>, 0) >>,
       \* 6: two roots with one title, each with a child
       << Node(1, "A", <<>>, 0),
          Node(2, "A", <<>>, 0),
          Node(3, "L", <<Ref(1, "A")>>, 0),
          Node(4, "M", <<Ref(2, "A")>>, 0) >>,
       \* 7: containers whose titles differ only in case
       << Node(1, "A", <<>>, 0),
          Node(2, "B", <<Ref(1, "A")>>, 0),
          Node(3, "b", <<Ref(1, "A"), Ref(2, "B")>>, 0),
          Node(4, "L", <<Ref(1, "A"), Ref(2, "B"), Ref(3, "b")>>, 0) >>,
       \* 8: a container with the title of a leaf
       << Node(1, "A", <<>>, 0),
          Node(2, "L", <<Ref(1, "A")>>, 0),
          Node(3, "L", <<Ref(1, "A")>>, 0),
          Node(4, "M", <<Ref(1, "A"), Ref(3, "L")>>, 0) >> >>

\* ------------------------------------------------------ destination data
Book(id, name) == [id |-> id, name |-> name]

Chapter(id, name, book) == [id |-> id, name |-> name, book |-> book]

Page(id, name, book, chapter, owner) ==
    [id |-> id, name |-> name, book |-> book, chapter |-> chapter, owner |-> owner]

World(books, chapters, pages, shelf, nextId) ==
    [books |-> books, chapters |-> chapters, pages |-> pages,
     shelf |-> shelf, nextId |-> nextId]

\* The workspaces a first run can find.
Workspaces ==
    << \* 1: empty
       World({}, {}, {}, {}, 1),
       \* 2: book A on the shelf with a page L
       World({Book(1, <<"A">>)}, {}, {Page(2, <<"L">>, 1, 0, 0)}, {1}, 3),
       \* 3: two books A; the second holds more
       World({Book(1, <<"A">>), Book(2, <<"A">>)},
             {Chapter(3, <<"B">>, 1), Chapter(4, <<"B">>, 2)},
             {Page(5, <<"L">>, 2, 4, 0)}, {1}, 6),
       \* 4: three books A; books 1 and 3 tie below book 2... and two books B that tie
       World({Book(1, <<"A">>), Book(2, <<"A">>), Book(3, <<"A">>),
              Book(4, <<"B">>), Book(5, <<"B">>)},
             {Chapter(6, <<"C">>, 2)},
             {Page(7, <<"L">>, 1, 0, 0), Page(8, <<"L">>, 2, 6, 0),
              Page(9, <<"M">>, 3, 0, 0)}, {3, 5}, 10),
       \* 5: an unrelated book outside the shelf and a book B with a chapter b
       World({Book(1, <<"M">>), Book(2, <<"B">>)},
             {Chapter(3, <<"b">>, 2)}, {}, {}, 4) >>


\* -------------------------------------------------------- tree classifier
Ids(pages) == {pages[i].id : i \in DOMAIN pages}

\* list.index: the first position holding x
FirstIndex(s, x) == CHOOSE i \in DOMAIN s : s[i] = x /\ \A j \in 1..(i - 1) : s[j] # x

\* a phantom that keeps the whole chain of the page that references it
PhantomOf_KeepsChain(anc, a) == Node(a.id, a.title, anc, 0)

\* "Create a minimal page object from ancestor data": the entry's id and
\* title, the chain entries before it, no owner
PhantomOf(anc, a) == Node(a.id, a.title, SubSeq(anc, 1, FirstIndex(anc, a) - 1), 0)

RECURSIVE PhantomScan(_, _, _, _)
\* parent_pages_from_ancestors: the ancestors referenced but not fetched, in
\* the order they are met, each with the chain entries before it
PhantomScan(pages, i, j, acc) ==
    IF i > Len(pages) THEN acc
    ELSE LET anc == pages[i].ancestors
         IN IF j > Len(anc) THEN PhantomScan(pages, i + 1, 1, acc)
            ELSE LET a == anc[j]
                 IN IF a.id # None /\ a.id \notin Ids(pages) /\ a.id \notin Ids(acc)
                    THEN PhantomScan(pages, i, j + 1, Append(acc, PhantomOf(anc, a)))
                    ELSE PhantomScan(pages, i, j + 1, acc)

\* confluence_pages after the phantoms are appended
WithPhantoms(fetched) == fetched \o PhantomScan(fetched, 1, 1, <<>>)

\* pages_with_children: some page's last ancestor is this page
HasChildren(pages, pid) ==
    \E k \in DOMAIN pages :
        Len(pages[k].ancestors) > 0 /\ Last(pages[k].ancestors).id = pid

PagesWithChildren(pages) == {pid \in Ids(pages) : HasChildren(pages, pid)}

IsBookRoot(pages, p) ==
    Len(p.ancestors) <= MaxBookDepth /\ p.id \in PagesWithChildren(pages)

\* top_level_pages, in the order of confluence_pages
TopLevelPages(pages) == SelectSeq(pages, LAMBDA p : IsBookRoot(pages, p))

PageById(pages, pid) == pages[CHOOSE i \in DOMAIN pages : pages[i].id = pid]

\* the loop walks confluence_pages in the order fetched, phantoms last
SortByDepth_KeepsOrder(pages) == pages

\* sorted(confluence_pages, key=get_depth): a stable sort by chain length
RECURSIVE SortByDepth(_)
SortByDepth(pages) ==
    IF pages = <<>> THEN <<>>
    ELSE LET rest == SortByDepth(SubSeq(pages, 1, Len(pages) - 1))
             x == Last(pages)
             later == {i \in DOMAIN rest : Len(rest[i].ancestors) > Len(x.ancestors)}
         IN IF later = {} THEN Append(rest, x)
            ELSE LET i == CHOOSE k \in later : \A l \in later : k <= l
                 IN SubSeq(rest, 1, i - 1) \o <<x>> \o SubSeq(rest, i, Len(rest))

\* ------------------------------------------------- destination operations
\* A thread m = [w, n, cmap, sent, deleted] carries the workspace w, the
\* number n of mutating calls made so far in the step, the chapter id map of
\* a copy, the page creates and page updates of the step in the order they
\* are made, and the ids of the books a DELETE was sent for.
\* F is the set of call ordinals that are answered with a failure (after
\* the single retry of the wrapper).
Thread(w) == [w |-> w, n |-> 0, cmap |-> <<>>, sent |-> <<>>, deleted |-> <<>>]

Refused(m, F) == (m.n + 1) \in F

BooksListing(w) == SortedIds({b.id : b \in w.books})

PagesOfBook(w, b) == {p \in w.pages : p.book = b}

ChaptersOfBook(w, b) == {c \in w.chapters : c.book = b}

EntityById(S, id) == CHOOSE e \in S : e.id = id

\* fetch_bookstack_pages(book_id) / fetch_bookstack_chapters(book_id), by id
PagesListing(w, b) ==
    LET ids == SortedIds({p.id : p \in PagesOfBook(w, b)})
    IN [i \in DOMAIN ids |-> EntityById(w.pages, ids[i])]

ChaptersListing(w, b) ==
    LET ids == SortedIds({c.id : c \in ChaptersOfBook(w, b)})
    IN [i \in DOMAIN ids |-> EntityById(w.chapters, ids[i])]

CreateBook(m, name, F) ==
    IF Refused(m, F) THEN [m |-> [m EXCEPT !.n = @ + 1], id |-> None]
    ELSE [m |-> [m EXCEPT !.n = @ + 1,
                          !.w.books = @ \cup {Book(m.w.nextId, name)},
                          !.w.nextId = @ + 1],
          id |-> m.w.nextId]

CreateChapter(m, name, book, F) ==
    IF Refused(m, F) \/ book \notin {b.id : b \in m.w.books}
    THEN [m |-> [m EXCEPT !.n = @ + 1], id |-> None]
    ELSE [m |-> [m EXCEPT !.n = @ + 1,
                          !.w.chapters = @ \cup {Chapter(m.w.nextId, name, book)},
                          !.w.nextId = @ + 1],
          id |-> m.w.nextId]

\* a page call as the thread records it: a page create that succeeded, or
\* an update_bookstack_page call that carried a chapter or an owner
PageCall(op, pid, chapter, owner) ==
    [op |-> op, id |-> pid, chapter |-> chapter, owner |-> owner]

CreatePage(m, name, book, chapter, owner, F) ==
    IF Refused(m, F) \/ book \notin {b.id : b \in m.w.books}
    THEN [m |-> [m EXCEPT !.n = @ + 1], id |-> None]
    ELSE [m |-> [m EXCEPT !.n = @ + 1,
                          !.w.pages = @ \cup {Page(m.w.nextId, name, book, chapter, owner)},
                          !.w.nextId = @ + 1,
                          !.sent = Append(@, PageCall("create", m.w.nextId, chapter, owner))],
          id |-> m.w.nextId]

\* update_bookstack_page(page_id, chapter_id=, owner_id=): GET, then PUT
UpdatePage(m, pid, chapter, owner, F) ==
    IF pid \notin {p.id : p \in m.w.pages} THEN [m |-> m, ok |-> FALSE]
    ELSE IF chapter = None /\ owner = None THEN [m |-> m, ok |-> TRUE]
    ELSE IF Refused(m, F)
    THEN [m |-> [m EXCEPT !.n = @ + 1,
                          !.sent = Append(@, PageCall("update", pid, chapter, owner))],
          ok |-> FALSE]
    ELSE LET old == EntityById(m.w.pages, pid)
             new == [old EXCEPT !.chapter = IF chapter # None THEN chapter ELSE @,
                                !.owner = IF owner # None THEN owner ELSE @]
         IN [m |-> [m EXCEPT !.n = @ + 1,
                             !.w.pages = (@ \ {old}) \cup {new},
                             !.sent = Append(@, PageCall("update", pid, chapter, owner))],
             ok |-> TRUE]

\* DELETE /api/books/{id}: the book goes with its chapters and pages
DeleteBook(m, id, F) ==
    IF Refused(m, F) \/ id \notin {b.id : b \in m.w.books}
    THEN [m EXCEPT !.n = @ + 1, !.deleted = Append(@, id)]
    ELSE [m EXCEPT !.n = @ + 1,
                   !.deleted = Append(@, id),
                   !.w.books = {b \in @ : b.id # id},
                   !.w.chapters = {c \in @ : c.book # id},
                   !.w.pages = {p \in @ : p.book # id},
                   !.w.shelf = @ \ {id}]

\* ---------------------------------------------------- duplicate reconciler
\* A dict is a sequence of entries [name, ids] in insertion order.
DictHas(d, nm) == \E i \in DOMAIN d : d[i].name = nm

DictGet(d, nm) == d[CHOOSE i \in DOMAIN d : d[i].name = nm].ids

DictSet(d, nm, ids) ==
    IF DictHas(d, nm)
    THEN [i \in DOMAIN d |-> IF d[i].name = nm THEN [name |-> nm, ids |-> ids] ELSE d[i]]
    ELSE Append(d, [name |-> nm, ids |-> ids])

RECURSIVE GroupByName(_, _, _)
GroupByName(w, ids, d) ==
    IF ids = <<>> THEN d
    ELSE LET nm == EntityById(w.books, ids[1]).name
             old == IF DictHas(d, nm) THEN DictGet(d, nm) ELSE <<>>
         IN GroupByName(w, Tail(ids), DictSet(d, nm, Append(old, ids[1])))

\* existing_books_by_name: each name to the ids of its books, both in
\* listing order
BooksByName(w) == GroupByName(w, BooksListing(w), <<>>)

\* the names held by more than one book, in the order the dict iterates them
DuplicateNames(byName) ==
    LET dups == SelectSeq(byName, LAMBDA e : Len(e.ids) > 1)
    IN [i \in DOMAIN dups |-> dups[i].name]

ContentCount(w, b) == Cardinality(PagesOfBook(w, b)) + Cardinality(ChaptersOfBook(w, b))

\* CandLess with the tie broken towards the larger id
CandLess_LargerIdFirst(a, b) == a.total > b.total \/ (a.total = b.total /\ a.id > b.id)

\* the sort key (-total, id)
CandLess(a, b) == a.total > b.total \/ (a.total = b.total /\ a.id < b.id)

InsertCand(s, x) ==
    LET later == {i \in DOMAIN s : CandLess(x, s[i])}
    IN IF later = {} THEN Append(s, x)
       ELSE LET i == CHOOSE k \in later : \A l \in later : k <= l
            IN SubSeq(s, 1, i - 1) \o <<x>> \o SubSeq(s, i, Len(s))

RECURSIVE SortCands(_)
\* book_page_counts.sort(key=lambda x: (-x[1], x[0]))
SortCands(s) ==
    IF s = <<>> THEN <<>>
    ELSE InsertCand(SortCands(SubSeq(s, 1, Len(s) - 1)), Last(s))

\* book_page_counts for the books of one name
Candidates(w, ids) == [i \in DOMAIN ids |-> [id |-> ids[i], total |-> ContentCount(w, ids[i])]]

RECURSIVE CopyChapters(_, _, _, _)
\* the chapters of a loser are created in the kept book; old id -> new id
CopyChapters(m, chs, keep, F) ==
    IF chs = <<>> THEN m
    ELSE LET r == CreateChapter(m, chs[1].name, keep, F)
             m2 == IF r.id # None
                   THEN [r.m EXCEPT !.cmap = (chs[1].id :> r.id) @@ @]
                   ELSE r.m
         IN CopyChapters(m2, Tail(chs), keep, F)

RECURSIVE CopyPages(_, _, _, _)
\* the pages of a loser are created in the kept book, under the copied chapter
CopyPages(m, pgs, keep, F) ==
    IF pgs = <<>> THEN m
    ELSE LET old == pgs[1].chapter
             newch == IF old # None /\ old \in DOMAIN m.cmap THEN m.cmap[old] ELSE None
             r == CreatePage(m, pgs[1].name, keep, newch, None, F)
             m2 == IF r.id # None /\ newch # None
                   THEN UpdatePage(r.m, r.id, newch, None, F).m
                   ELSE r.m
         IN CopyPages(m2, Tail(pgs), keep, F)

CopyLoser(m, loser, keep, F) ==
    LET pgs == PagesListing(m.w, loser)
        chs == ChaptersListing(m.w, loser)
    IN CopyPages(CopyChapters([m EXCEPT !.cmap = <<>>], chs, keep, F), pgs, keep, F)

RECURSIVE CopyLosers(_, _, _, _)
CopyLosers(m, losers, keep, F) ==
    IF losers = <<>> THEN m
    ELSE CopyLosers(CopyLoser(m, losers[1], keep, F), Tail(losers), keep, F)

\* One name with several books: the merge record and the thread after the
\* copies (no copy is made when copy is FALSE, the dry run of pass 1).
MergeGroup(m, nm, ids, copy, F) ==
    LET cands == SortCands(Candidates(m.w, ids))
        keep == cands[1].id
        losers == [i \in 1..(Len(cands) - 1) |-> cands[i + 1].id]
    IN [m |-> IF copy THEN CopyLosers(m, losers, keep, F) ELSE m,
        rec |-> [name |-> nm, keep |-> keep, losers |-> losers, cands |-> cands]]

RECURSIVE MergeGroups(_, _, _, _, _, _)
\* the loop over the duplicate names; log collects the merge records
MergeGroups(m, byName, names, copy, F, log) ==
    IF names = <<>> THEN [m |-> m, log |-> log]
    ELSE LET g == MergeGroup(m, names[1], DictGet(byName, names[1]), copy, F)
         IN MergeGroups(g.m, byName, Tail(names), copy, F, Append(log, g.rec))

RECURSIVE DeleteBooks(_, _, _)
\* the delete loop over books_to_delete
DeleteBooks(m, ids, F) ==
    IF ids = <<>> THEN m
    ELSE DeleteBooks(DeleteBook(m, ids[1], F), Tail(ids), F)

\* DeletesMerged without the dry-run guard
DeletesMerged_IgnoresDryrun(ids, dry) == ids # <<>>

\* "if books_to_delete and not dryrun"
DeletesMerged(ids, dry) == ids # <<>> /\ ~dry

RECURSIVE Flatten(_)
Flatten(ss) == IF ss = <<>> THEN <<>> ELSE ss[1] \o Flatten(Tail(ss))

\* books_to_delete that holds the kept book of every merge as well
LosersOf_WithKept(log) ==
    Flatten([i \in DOMAIN log |-> <<log[i].keep>> \o log[i].losers])

\* books_to_delete of a pass
LosersOf(log) == Flatten([i \in DOMAIN log |-> log[i].losers])

\* the dict after a pass: each merged name refers to the kept book only
RECURSIVE KeepOnly(_, _)
KeepOnly(d, log) ==
    IF log = <<>> THEN d
    ELSE KeepOnly(DictSet(d, log[1].name, <<log[1].keep>>), Tail(log))

\* list.remove(x); then append y unless it is there
RemoveFirst(s, x) ==
    LET i == FirstIndex(s, x)
    IN SubSeq(s, 1, i - 1) \o SubSeq(s, i + 1, Len(s))

AppendNew(s, x) == IF x \in Range(s) THEN s ELSE Append(s, x)

\* RepairMap that leaves the entries of the loser in place
RepairMap_Keeps(map, loser, keep) == map

\* pass 2, after the copy of one loser: page_to_book_map and
\* existing_book_ids_in_shelf are pointed at the kept book
RepairMap(map, loser, keep) ==
    [c \in DOMAIN map |-> IF map[c] = loser THEN keep ELSE map[c]]

RepairShelf(shelf, loser, keep) ==
    IF loser \in Range(shelf) THEN AppendNew(RemoveFirst(shelf, loser), keep) ELSE shelf

RECURSIVE RepairAll(_, _, _, _)
\* st = [map, shelf]; the repairs of one merge record, loser by loser
RepairAll(st, losers, keep, i) ==
    IF i > Len(losers) THEN st
    ELSE RepairAll([map |-> RepairMap(st.map, losers[i], keep),
                    shelf |-> RepairShelf(st.shelf, losers[i], keep)],
                   losers, keep, i + 1)

RECURSIVE RepairLog(_, _)
RepairLog(st, log) ==
    IF log = <<>> THEN st
    ELSE RepairLog(RepairAll(st, log[1].losers, log[1].keep, 1), Tail(log))

\* ------------------------------------------------------------ entity mapper
\* A map from source ids is a function on the ids of confluence_pages; a
\* missing key is None.
EmptyMap(pages) == [c \in Ids(pages) |-> None]

\* the lookup finds no book whatever the name
ExistingBook_Misses(dict, nm) == None

\* existing_books_by_name.get(page_title): the id of the book listed under
\* exactly this name, None when there is none
ExistingBook(dict, nm) == IF DictHas(dict, nm) THEN DictGet(dict, nm)[1] ELSE None

RECURSIVE CreateBooksLoop(_, _, _, _)
\* the loop over top_level_pages; st = [m, map, dict, shelf, failed]
CreateBooksLoop(st, tops, dry, F) ==
    IF tops = <<>> THEN st
    ELSE LET top == tops[1]
             nm == <<top.title>>
         IN IF ExistingBook(st.dict, nm) # None
            THEN LET b == ExistingBook(st.dict, nm)
                 IN CreateBooksLoop([st EXCEPT !.map[top.id] = b,
                                               !.shelf = AppendNew(@, b)],
                                    Tail(tops), dry, F)
            ELSE IF dry
            THEN CreateBooksLoop([st EXCEPT !.map[top.id] = DryrunBookId],
                                 Tail(tops), dry, F)
            ELSE LET r == CreateBook(st.m, nm, F)
                 IN IF r.id # None
                    THEN CreateBooksLoop([st EXCEPT !.m = r.m,
                                                  !.map[top.id] = r.id,
                                                  !.dict = DictSet(@, nm, <<r.id>>),
                                                  !.shelf = AppendNew(@, r.id)],
                                         Tail(tops), dry, F)
                    ELSE CreateBooksLoop([st EXCEPT !.m = r.m,
                                                  !.failed = @ \cup {top.id}],
                                         Tail(tops), dry, F)

RECURSIVE EnsureKept(_, _)
\* every book of existing_books_by_name is put on the shelf list
EnsureKept(shelf, d) ==
    IF d = <<>> THEN shelf
    ELSE EnsureKept(AppendNew(shelf, d[1].ids[1]), Tail(d))

RECURSIVE RootWalk(_, _, _, _, _)
\* the fallback walk from the root ancestor
RootWalk(pages, bookIds, map, cur, fuel) ==
    IF fuel = 0 \/ cur \notin Ids(pages) THEN None
    ELSE IF cur \in bookIds /\ map[cur] # None THEN map[cur]
    ELSE LET ca == PageById(pages, cur).ancestors
         IN IF ca = <<>> THEN None
            ELSE RootWalk(pages, bookIds, map, ca[1].id, fuel - 1)

\* the walk takes the outermost ancestor that is a book
NearestBook_Outermost(pages, bookIds, map, p) ==
    LET anc == p.ancestors
        hits == {j \in DOMAIN anc :
                    anc[j].id \in bookIds /\ anc[j].id \in DOMAIN map /\ map[anc[j].id] # None}
    IN IF hits # {}
       THEN map[anc[CHOOSE j \in hits : \A k \in hits : j <= k].id]
       ELSE None

\* the book of a page that is no book itself: the nearest ancestor that is
\* a book and has an entry in page_to_book_map
NearestBook(pages, bookIds, map, p) ==
    LET anc == p.ancestors
        hits == {j \in DOMAIN anc :
                    anc[j].id \in bookIds /\ anc[j].id \in DOMAIN map /\ map[anc[j].id] # None}
    IN IF hits # {}
       THEN map[anc[CHOOSE j \in hits : \A k \in hits : k <= j].id]
       ELSE IF anc # <<>> THEN RootWalk(pages, bookIds, map, anc[1].id, Len(pages))
       ELSE None

\* page_to_book_map after "Mapping pages to their books"
MapPagesToBooks(pages, map) ==
    LET bookIds == Ids(TopLevelPages(pages))
    IN [c \in DOMAIN map |->
          IF c \in bookIds THEN map[c]
          ELSE LET b == NearestBook(pages, bookIds, map, PageById(pages, c))
               IN IF b # None THEN b ELSE map[c]]

\* all_books: the ids in page_to_book_map that are ints (the listing of
\* books carries no shelf_id, so the shelf filter adds nothing)
AllBooks(map) == {map[c] : c \in DOMAIN map} \ {None, DryrunBookId}

\* existing_by_confluence_id: the names of the pages of all_books
PageNameCache(w, books) == {p.name : p \in {x \in w.pages : x.book \in books}}

\* existing_chapter_names: the lowered names of the chapters of all_books
ChapterNameCache(w, books) == {Lower(c.name) : c \in {x \in w.chapters : x.book \in books}}

\* the walk takes the outermost ancestor with an entry in chapter_map
NearestChapter_Outermost(chapter_map, p) ==
    LET anc == p.ancestors
        hits == {j \in DOMAIN anc : anc[j].id # None /\ chapter_map[anc[j].id] # None}
    IN IF hits = {} THEN None
       ELSE chapter_map[anc[CHOOSE j \in hits : \A k \in hits : j <= k].id]

\* parent_chapter_id: the nearest ancestor with an entry in chapter_map
NearestChapter(chapter_map, p) ==
    LET anc == p.ancestors
        hits == {j \in DOMAIN anc : anc[j].id # None /\ chapter_map[anc[j].id] # None}
    IN IF hits = {} THEN None
       ELSE chapter_map[anc[CHOOSE j \in hits : \A k \in hits : k <= j].id]

\* the name of the chapter of a page with children
ChapterName(pages, names, p) ==
    IF Lower(<<p.title>>) \in names
    THEN IF p.ancestors # <<>> /\ Last(p.ancestors).id \in Ids(pages)
         THEN <<PageById(pages, Last(p.ancestors).id).title, p.title>>
         ELSE <<"Chapter", p.title>>
    ELSE <<p.title>>

\* the skip-existing check at the head of the loop body
SkipsNode(cache, skip, p) == <<p.title>> \in cache /\ skip

\* A page with children in a real run: chapter, 'Introduction' page, update.
\* Answers [m, chapter] with chapter None when the chapter create failed.
WriteContainer(m, nm, book, owner, F) ==
    LET r1 == CreateChapter(m, nm, book, F)
    IN IF r1.id = None THEN [m |-> r1.m, chapter |-> None]
       ELSE LET r2 == CreatePage(r1.m, <<"Introduction">>, book, r1.id, owner, F)
            IN IF r2.id = None THEN [m |-> r2.m, chapter |-> r1.id]
               ELSE [m |-> UpdatePage(r2.m, r2.id, r1.id, owner, F).m, chapter |-> r1.id]

\* the follow-up update is made for a chapter only and carries no owner
WriteLeaf_UpdatesChapterOnly(m, nm, book, chapter, owner, F) ==
    LET r == CreatePage(m, nm, book, chapter, owner, F)
    IN IF r.id = None THEN [m |-> r.m, page |-> None]
       ELSE IF chapter # None
       THEN [m |-> UpdatePage(r.m, r.id, chapter, None, F).m, page |-> r.id]
       ELSE [m |-> r.m, page |-> r.id]

\* A page without children in a real run: page, then the update that
\* re-asserts chapter and owner. Answers [m, page].
WriteLeaf(m, nm, book, chapter, owner, F) ==
    LET r == CreatePage(m, nm, book, chapter, owner, F)
    IN IF r.id = None THEN [m |-> r.m, page |-> None]
       ELSE IF chapter # None \/ owner # None
       THEN [m |-> UpdatePage(r.m, r.id, chapter, owner, F).m, page |-> r.id]
       ELSE [m |-> r.m, page |-> r.id]

\* ------------------------------------------------------------------ state
VARIABLES
    scn,                \* which list of Sources the source answers with
    ws,                 \* which of Workspaces the first run finds
    skip_existing,      \* the skip_existing argument of every run
    dryrun,             \* the dryrun argument of the current run
    run,                \* the number of the current run (0 before the first)
    pc,                 \* the position of the current run
    bs,                 \* the BookStack workspace
    bs0,                \* the workspace when the current run started
    confluence_pages,   \* fetched pages followed by the phantoms
    existing_books_by_name,
    existing_book_ids_in_shelf,
    shelf_data,         \* whether the shelf could be read
    page_to_book_map,
    existing_by_confluence_id,
    existing_chapter_names,
    chapter_map,
    idx,                \* the position in sorted_pages
    created, updated, skipped, errors,
    failures,           \* destination calls answered with a failure so far
    concurrent,         \* books created by another invocation so far
    writes,             \* mutating calls this run has sent
    outcome,            \* per source id, the counter the loop incremented
    failedWrite,        \* the source ids whose own create call failed
    mergeLog,           \* the merge records of this run, tagged with the pass
    sentShelf,          \* the membership lists sent to the shelf by this run
    prev,               \* the summary of the previous run
    trail               \* the phases the current run has executed, in order

vars == <<scn, ws, skip_existing, dryrun, run, pc, bs, bs0, confluence_pages,
          existing_books_by_name, existing_book_ids_in_shelf, shelf_data,
          page_to_book_map, existing_by_confluence_id, existing_chapter_names,
          chapter_map, idx, created, updated, skipped, errors, failures,
          concurrent, writes, outcome, failedWrite, mergeLog, sentShelf, prev,
          trail>>

\* the adaptive rate limiting and the call in progress
VARIABLES
    rate_limit_delay,   \* _rate_limit_delay, in units of 1/640 s
    handled,            \* how often handle_rate_limit has run
    call,               \* the destination call in progress, or the last one
    started             \* destination calls started so far

callVars == <<rate_limit_delay, handled, call, started>>

\* the configuration and the start of the program
VARIABLES
    settings,           \* which of the settings of .env are present
    boot,               \* the position of main before the sync proper
    network,            \* the requests sent so far
    boot_shelf          \* where shelf_id comes from

bootVars == <<settings, boot, network, boot_shelf>>

\* the macro transcoder
VARIABLES
    html,               \* the storage format handed to the transcoder
    bs4,                \* whether BeautifulSoup could be imported
    converted           \* what the transcoder returned

macroVars == <<html, bs4, converted>>

\* delete_orphan_pages
VARIABLES
    all_pages,          \* the pages the run examines
    mode,               \* a scan of the listing, or one page given by id
    page_idx,           \* the position in the loop over the pages
    deleted_ids,        \* the pages the run has deleted
    unfetched,          \* the pages whose details could not be fetched
    orphan_dryrun       \* the dryrun flag of delete_orphan_pages

orphanVars == <<all_pages, mode, page_idx, deleted_ids, unfetched, orphan_dryrun>>

\* the state outside sync_confluence_pages
others == <<callVars, bootVars, macroVars, orphanVars>>

besideCalls == <<bootVars, macroVars, orphanVars>>

besideBoot == <<callVars, macroVars, orphanVars>>

besideMacros == <<callVars, bootVars, orphanVars>>

besideOrphans == <<callVars, bootVars, macroVars>>

allvars == <<vars, others>>

config == <<scn, ws, skip_existing>>

counters == <<created, updated, skipped, errors>>

caches == <<existing_by_confluence_id, existing_chapter_names>>

\* failures still available to the current step
Budget == IF run = 1 THEN MaxFailures - failures ELSE 0

RECURSIVE SetsUpTo(_, _)
\* the subsets of 1..n with at most k elements
SetsUpTo(n, k) ==
    IF k <= 0 THEN {{}}
    ELSE LET smaller == SetsUpTo(n, k - 1)
         IN smaller \cup {S \cup {i} : S \in smaller, i \in 1..n}

\* the calls of 1..n that were refused
Hit(F, n) == Cardinality(F \cap 1..n)

TagLog(log, pass) ==
    [i \in DOMAIN log |-> [pass |-> pass, name |-> log[i].name, keep |-> log[i].keep,
                           losers |-> log[i].losers, cands |-> log[i].cands]]

NoSummary == [run |-> 0, dryrun |-> FALSE, created |-> 0, skipped |-> 0, errors |-> 0]

SyncInit ==
    /\ scn \in DOMAIN Sources
    /\ skip_existing \in BOOLEAN
    /\ dryrun \in BOOLEAN
    /\ run = 0
    /\ pc = "Start"
    /\ ws \in DOMAIN Workspaces
    /\ bs = Workspaces[ws]
    /\ bs0 = bs
    /\ confluence_pages = <<>>
    /\ existing_books_by_name = <<>>
    /\ existing_book_ids_in_shelf = <<>>
    /\ shelf_data = FALSE
    /\ page_to_book_map = <<>>
    /\ existing_by_confluence_id = {}
    /\ existing_chapter_names = {}
    /\ chapter_map = <<>>
    /\ idx = 0
    /\ created = 0 /\ updated = 0 /\ skipped = 0 /\ errors = 0
    /\ failures = 0
    /\ concurrent = 0
    /\ writes = 0
    /\ outcome = <<>>
    /\ failedWrite = {}
    /\ mergeLog = <<>>
    /\ sentShelf = <<>>
    /\ prev = NoSummary
    /\ trail = <<>>

\* ------------------------------------------------- adaptive rate limiting
\* One destination call at a time, request by request. The destination
\* answers a request with ok, rate_limited (429) or error (any other status).
Statuses == {"ok", "rate_limited", "error"}

\* the calls that go through "if 429: handle_rate_limit(); retry once"
WrappedWrites ==
    {"create_book", "create_chapter", "create_page", "update_page",
     "delete_chapter", "delete_page", "delete_book"}

\* the mutating calls that read the status of their one response and
\* nothing else: create_bookstack_shelf and the PUT of the shelf membership
UnwrappedWrites == {"create_shelf", "update_shelf"}

CallKinds == WrappedWrites \cup UnwrappedWrites \cup {"fetch_chapters"}

Min(a, b) == IF a <= b THEN a ELSE b

\* handle_rate_limit that starts over from the initial delay beyond the cap
HandleRateLimit_StartsOver(d) ==
    IF (d * 3) \div 2 > max_rate_limit_delay THEN InitialRateLimitDelay ELSE (d * 3) \div 2

\* handle_rate_limit that doubles the delay
HandleRateLimit_Doubles(d) == Min(d * 2, max_rate_limit_delay)

\* handle_rate_limit: _rate_limit_delay = min(_rate_limit_delay * 1.5, max)
HandleRateLimit(d) == Min((d * 3) \div 2, max_rate_limit_delay)

NoCall ==
    [kind |-> "none", at |-> "done", attempts |-> 0, escalations |-> 0,
     first |-> "none", second |-> "none", result |-> "none"]

\* a call that has sent its first request; update_bookstack_page reads the
\* page before it writes
NewCall(kind) ==
    [kind |-> kind, at |-> (IF kind = "update_page" THEN "get" ELSE "first"),
     attempts |-> 0, escalations |-> 0, first |-> "none", second |-> "none",
     result |-> "pending"]

\* the retry that retries again on another 429
WrappedWrite_RetriesAgain(c, status) ==
    IF status = "rate_limited"
    THEN [c EXCEPT !.attempts = @ + 1, !.escalations = @ + 1, !.at = "retry",
                   !.first = (IF c.at = "first" THEN status ELSE @),
                   !.second = (IF c.at = "retry" THEN status ELSE @)]
    ELSE [c EXCEPT !.attempts = @ + 1, !.at = "done",
                   !.first = (IF c.at = "first" THEN status ELSE @),
                   !.second = (IF c.at = "retry" THEN status ELSE @),
                   !.result = (IF status = "ok" THEN "ok" ELSE "failed")]

\* the answer to the POST, PUT or DELETE of a wrapped write: on 429 to the
\* first attempt handle_rate_limit and one retry; the status of the last
\* response decides between the result and None/False
WrappedWrite(c, status) ==
    IF c.at = "first"
    THEN IF status = "rate_limited"
         THEN [c EXCEPT !.attempts = 1, !.first = status, !.escalations = 1,
                        !.at = "retry"]
         ELSE [c EXCEPT !.attempts = 1, !.first = status, !.at = "done",
                        !.result = (IF status = "ok" THEN "ok" ELSE "failed")]
    ELSE [c EXCEPT !.attempts = 2, !.second = status, !.at = "done",
                   !.result = (IF status = "ok" THEN "ok" ELSE "failed")]

\* the answer to the GET of update_bookstack_page: any status but 200 makes
\* the call return False before it writes
ReadBeforeUpdate(c, status) ==
    IF status = "ok" THEN [c EXCEPT !.at = "first"]
    ELSE [c EXCEPT !.at = "done", !.result = "failed"]

\* the answer to the GET of fetch_bookstack_chapters: on 429
\* handle_rate_limit and the same request again; raise_for_status otherwise
FetchChapters(c, status) ==
    IF status = "rate_limited"
    THEN [c EXCEPT !.attempts = @ + 1, !.escalations = @ + 1,
                   !.first = (IF c.attempts = 0 THEN status ELSE @)]
    ELSE [c EXCEPT !.attempts = @ + 1, !.at = "done",
                   !.first = (IF c.attempts = 0 THEN status ELSE @),
                   !.result = (IF status = "ok" THEN "ok" ELSE "raised")]

\* the answer to the POST of create_bookstack_shelf or to the PUT of the
\* shelf membership: 200 or 201 is success, any other status, 429 included,
\* is reported and the run goes on
UnwrappedWrite(c, status) ==
    [c EXCEPT !.attempts = 1, !.first = status, !.at = "done",
              !.result = (IF status = "ok" THEN "ok" ELSE "failed")]

\* the call after the answer to its pending request
Answered(c, status) ==
    IF c.kind = "fetch_chapters" THEN FetchChapters(c, status)
    ELSE IF c.kind \in UnwrappedWrites THEN UnwrappedWrite(c, status)
    ELSE IF c.at = "get" THEN ReadBeforeUpdate(c, status)
    ELSE WrappedWrite(c, status)

CallsInit ==
    /\ rate_limit_delay = InitialRateLimitDelay
    /\ handled = 0
    /\ call = NoCall
    /\ started = 0

\* the run reaches its next destination call
BeginCall ==
    /\ call.at = "done"
    /\ started < MaxCalls
    /\ \E kind \in CallKinds : call' = NewCall(kind)
    /\ started' = started + 1
    /\ UNCHANGED <<vars, besideCalls, rate_limit_delay, handled>>

\* the destination answers the pending request and the call goes on
Answer ==
    /\ call.at # "done"
    /\ \E status \in Statuses :
         /\ status = "rate_limited" => handled < Max429
         /\ call' = Answered(call, status)
    /\ rate_limit_delay' = (IF call'.escalations > call.escalations
                            THEN HandleRateLimit(rate_limit_delay)
                            ELSE rate_limit_delay)
    /\ handled' = handled + (call'.escalations - call.escalations)
    /\ UNCHANGED <<vars, besideCalls, started>>

NextCalls == BeginCall \/ Answer

\* ------------------------------------------------------ the configuration
\* main for "--type confluence --sync-pages", then sync_confluence_pages up
\* to the fetch of the source pages.
Settings ==
    [confluence_credentials : BOOLEAN, bookstack_credentials : BOOLEAN,
     space_key : BOOLEAN, shelf_id : BOOLEAN, book_id : BOOLEAN, dryrun : BOOLEAN]

\* "If shelf_id is not provided, automatically create a shelf from the
\* Confluence space"
AutoShelf(cfg) == ~cfg.shelf_id /\ ~cfg.book_id

BootInit ==
    /\ settings \in Settings
    /\ boot = "main"
    /\ network = <<>>
    /\ boot_shelf = (IF settings.shelf_id THEN "given" ELSE "none")

BootOff ==
    /\ BootInit
    /\ settings = [confluence_credentials |-> TRUE, bookstack_credentials |-> TRUE,
                   space_key |-> TRUE, shelf_id |-> TRUE, book_id |-> FALSE,
                   dryrun |-> FALSE]

\* main: "Validate configuration based on migration type"
Validate ==
    /\ boot = "main"
    /\ boot' = (IF settings.confluence_credentials /\ settings.bookstack_credentials
                THEN "users" ELSE "stopped")
    /\ UNCHANGED <<vars, besideBoot, settings, network, boot_shelf>>

\* main: "Build user map for page assignment"; an exception is caught
LoadUsers ==
    /\ boot = "users"
    /\ network' = Append(network, "GET bookstack users")
    /\ boot' = "scope"
    /\ UNCHANGED <<vars, besideBoot, settings, boot_shelf>>

\* sync_confluence_pages: the check of the space key, then of the root
CheckScope ==
    /\ boot = "scope"
    /\ boot' = (IF ~settings.space_key THEN "stopped"
                ELSE IF AutoShelf(settings) THEN "spaces"
                ELSE "mode")
    /\ UNCHANGED <<vars, besideBoot, settings, network, boot_shelf>>

\* "Fetch the Confluence space to get its name"
FetchSpaces ==
    /\ boot = "spaces"
    /\ network' = Append(network, "GET confluence space")
    /\ \E ok \in BOOLEAN : boot' = (IF ok THEN "shelves" ELSE "raised")
    /\ UNCHANGED <<vars, besideBoot, settings, boot_shelf>>

\* "Check if shelf already exists"
FetchShelves ==
    /\ boot = "shelves"
    /\ network' = Append(network, "GET bookstack shelves")
    /\ \E answer \in {"exists", "absent", "raises"} :
         /\ boot' = (IF answer = "raises" THEN "raised"
                     ELSE IF answer = "absent" /\ ~settings.dryrun THEN "create_shelf"
                     ELSE "mode")
         /\ boot_shelf' = (IF answer = "exists" THEN "existing"
                           ELSE IF answer = "absent" /\ settings.dryrun
                           THEN "dryrun_shelf_id"
                           ELSE boot_shelf)
    /\ UNCHANGED <<vars, besideBoot, settings>>

\* create_bookstack_shelf for the space
CreateShelf ==
    /\ boot = "create_shelf"
    /\ network' = Append(network, "POST bookstack shelves")
    /\ \E ok \in BOOLEAN :
         /\ boot' = (IF ok THEN "mode" ELSE "stopped")
         /\ boot_shelf' = (IF ok THEN "created" ELSE boot_shelf)
    /\ UNCHANGED <<vars, besideBoot, settings>>

\* "Determine which mode to use"
ChooseMode ==
    /\ boot = "mode"
    /\ LET use_shelf_mode == boot_shelf \in {"given", "existing", "created"}
           use_legacy_mode == settings.book_id
       IN boot' = (IF ~use_shelf_mode /\ ~use_legacy_mode
                      /\ boot_shelf # "dryrun_shelf_id"
                   THEN "stopped" ELSE "fetch")
    /\ UNCHANGED <<vars, besideBoot, settings, network, boot_shelf>>

\* "Fetch Confluence pages"
FetchSource ==
    /\ boot = "fetch"
    /\ network' = Append(network, "GET confluence pages")
    /\ boot' = "syncing"
    /\ UNCHANGED <<vars, besideBoot, settings, boot_shelf>>

NextBoot ==
    \/ Validate
    \/ LoadUsers
    \/ CheckScope
    \/ FetchSpaces
    \/ FetchShelves
    \/ CreateShelf
    \/ ChooseMode
    \/ FetchSource

\* ------------------------------------------------------ the macro transcoder
\* An input is a sequence of pieces of markup:
\*   text               plain text
\*   br                 <br>, a void element as Confluence stores it
\*   code_macro         <ac:structured-macro ac:name="code"> with an
\*                      <ac:plain-text-body>
\*   code_macro_nobody  <ac:structured-macro ac:name="code"> without a body
\*   info_macro         <ac:structured-macro ac:name="info">
\*   code_param         <ac:parameter ac:name="code"> outside any macro
\* and the output may hold, in addition,
\*   br/                <br/>, the void element as BeautifulSoup writes it
\*   pre                <pre><code>...</code></pre>
Pieces == {"text", "br", "code_macro", "code_macro_nobody", "info_macro", "code_param"}

Inputs == UNION {[1..n -> Pieces] : n \in 0..MaxLen}

\* 'ac:structured-macro' in html and 'ac:name="code"' in html
HasMarkers(h) ==
    /\ \E i \in DOMAIN h : h[i] \in {"code_macro", "code_macro_nobody", "info_macro"}
    /\ \E i \in DOMAIN h : h[i] \in {"code_macro", "code_macro_nobody", "code_param"}

\* one piece through BeautifulSoup(html, 'html.parser') and str(soup): a
\* code macro with a body is replaced by a pre block, a macro without one is
\* skipped, a void element is written self-closed
Reserialised(piece) ==
    IF piece = "code_macro" THEN "pre"
    ELSE IF piece = "br" THEN "br/"
    ELSE piece

\* _convert_confluence_macros_to_html
ConvertMacros(h, available) ==
    IF h = <<>> THEN h
    ELSE IF ~HasMarkers(h) THEN h
    ELSE IF ~available THEN h
    ELSE [i \in DOMAIN h |-> Reserialised(h[i])]

MacrosInit ==
    /\ html \in Inputs
    /\ bs4 \in BOOLEAN
    /\ converted = [done |-> FALSE, out |-> <<>>]

MacrosOff ==
    /\ html = <<>>
    /\ bs4 = FALSE
    /\ converted = [done |-> FALSE, out |-> <<>>]

\* convert_atlassian_storage_to_html hands the storage format over
Transcode ==
    /\ ~converted.done
    /\ converted' = [done |-> TRUE, out |-> ConvertMacros(html, bs4)]
    /\ UNCHANGED <<vars, besideMacros, html, bs4>>

NextMacros == Transcode

\* ------------------------------------------------------ delete_orphan_pages
\* The content of a field is "None" (the field is missing), "" or "text"
\* (more text than min_text_length). A page carries the fields the listing
\* gave and the html and markdown its details hold.
ListedPage(id, list_html, list_md, full_html) ==
    [id |-> id, html |-> list_html, markdown |-> list_md, full_html |-> full_html]

OnePage(id) ==
    {ListedPage(id, h, m, f) : h \in {"None", "", "text"}, m \in {"None", ""},
                               f \in {"", "text"}}

RECURSIVE Listings(_)
\* the listings of n pages with the ids 1..n
Listings(n) ==
    IF n = 0 THEN {<<>>}
    ELSE {Append(l, p) : l \in Listings(n - 1), p \in OnePage(n)}

\* fetch_page_details: one retry after a 429, None when the last response
\* is not a success
FetchPageDetails(first, second) ==
    first = "ok" \/ (first = "rate_limited" /\ second = "ok")

\* needs_fetch of is_page_effectively_empty
NeedsFetch(p) ==
    \/ p.html = "None" \/ p.markdown = "None"
    \/ (p.html = "" /\ p.markdown = "")

\* the checks of markdown and html once the content is at hand
EffectivelyEmpty(h, m) ==
    IF m = "text" THEN FALSE
    ELSE h \in {"None", ""}

\* a page without details judged by the fields of the listing
WithoutDetails_TrustsListing(h, m) == EffectivelyEmpty(h, m)

\* "If we could not fetch details ... treat the page as non-empty"
WithoutDetails(h, m) == FALSE

\* is_page_effectively_empty for a page whose details fetch ended fetched
IsPageEffectivelyEmpty(p, fetched) ==
    IF NeedsFetch(p)
    THEN IF fetched THEN EffectivelyEmpty(p.full_html, "")
         ELSE WithoutDetails(p.html, p.markdown)
    ELSE EffectivelyEmpty(p.html, p.markdown)

OrphansInit ==
    /\ all_pages \in UNION {Listings(n) : n \in 1..MaxPages}
    /\ mode \in {"scan", "single"}
    /\ page_idx = 0
    /\ deleted_ids = {}
    /\ unfetched = {}
    /\ orphan_dryrun \in BOOLEAN

\* "--page-id": the details of the one page are fetched first; the run ends
\* when they cannot be
FetchSingle ==
    /\ mode = "single" /\ page_idx = 0
    /\ \E first \in Statuses, second \in Statuses :
         LET p == all_pages[1]
         IN IF FetchPageDetails(first, second)
            THEN /\ all_pages' = <<ListedPage(p.id, p.full_html, "", p.full_html)>>
                 /\ page_idx' = 1
                 /\ unfetched' = unfetched
            ELSE /\ all_pages' = <<p>>
                 /\ page_idx' = 2
                 /\ unfetched' = unfetched \cup {[id |-> p.id, first |-> first,
                                                   second |-> second]}
    /\ UNCHANGED <<vars, besideOrphans, mode, deleted_ids, orphan_dryrun>>

\* the listing of the pages
StartScan ==
    /\ mode = "scan" /\ page_idx = 0
    /\ page_idx' = 1
    /\ UNCHANGED <<vars, besideOrphans, all_pages, mode, deleted_ids, unfetched,
                   orphan_dryrun>>

\* one iteration of "for idx, page in enumerate(pages, 1)"
Examine ==
    /\ page_idx \in 1..Len(all_pages)
    /\ \E first \in Statuses, second \in Statuses, deleteOk \in BOOLEAN :
         LET p == all_pages[page_idx]
             fetched == FetchPageDetails(first, second)
             is_empty == IsPageEffectivelyEmpty(p, fetched)
         IN /\ unfetched' = IF NeedsFetch(p) /\ ~fetched
                            THEN unfetched \cup {[id |-> p.id, first |-> first,
                                                  second |-> second]}
                            ELSE unfetched
            /\ deleted_ids' = IF is_empty /\ ~orphan_dryrun /\ deleteOk
                              THEN deleted_ids \cup {p.id}
                              ELSE deleted_ids
    /\ page_idx' = page_idx + 1
    /\ UNCHANGED <<vars, besideOrphans, all_pages, mode, orphan_dryrun>>

NextOrphans == FetchSingle \/ StartScan \/ Examine

OrphansOff ==
    /\ all_pages = <<>>
    /\ mode = "scan"
    /\ page_idx = 0
    /\ deleted_ids = {}
    /\ unfetched = {}
    /\ orphan_dryrun = FALSE

\* the state when the program starts
Init == SyncInit /\ CallsInit /\ BootOff /\ MacrosOff /\ OrphansOff

\* the calls of a run that found nothing to migrate in an empty workspace
SyncOff == SyncInit /\ scn = 1 /\ ws = 1 /\ ~skip_existing /\ ~dryrun

InitCalls == SyncOff /\ CallsInit /\ BootOff /\ MacrosOff /\ OrphansOff

SpecCalls == InitCalls /\ [][NextCalls]_allvars

InitBoot == SyncOff /\ CallsInit /\ BootInit /\ MacrosOff /\ OrphansOff

SpecBoot == InitBoot /\ [][NextBoot]_allvars

InitMacros == SyncOff /\ CallsInit /\ BootOff /\ MacrosInit /\ OrphansOff

SpecMacros == InitMacros /\ [][NextMacros]_allvars

InitOrphans == SyncOff /\ CallsInit /\ BootOff /\ MacrosOff /\ OrphansInit

SpecOrphans == InitOrphans /\ [][NextOrphans]_allvars

\* -------------------------------------------------------------- the run
\* Fetch: the pages of the space, the phantoms, the listing of all books.
\* A second run starts after a first run without failures or interference.
StartRun ==
    /\ \/ pc = "Start" /\ run = 0 /\ dryrun' = dryrun /\ prev' = prev
       \/ /\ pc = "Done" /\ run >= 1 /\ run < MaxRuns
          /\ failures = 0 /\ concurrent = 0
          /\ dryrun' \in BOOLEAN
          /\ prev' = [run |-> run, dryrun |-> dryrun, created |-> created,
                      skipped |-> skipped, errors |-> errors]
    /\ run' = run + 1
    /\ pc' = "Pass1"
    /\ bs0' = bs
    /\ confluence_pages' = WithPhantoms(Sources[scn])
    /\ existing_books_by_name' = BooksByName(bs)
    /\ existing_book_ids_in_shelf' = <<>>
    /\ shelf_data' = FALSE
    /\ page_to_book_map' = EmptyMap(confluence_pages')
    /\ chapter_map' = EmptyMap(confluence_pages')
    /\ existing_by_confluence_id' = {}
    /\ existing_chapter_names' = {}
    /\ idx' = 0
    /\ created' = 0 /\ updated' = 0 /\ skipped' = 0 /\ errors' = 0
    /\ writes' = 0
    /\ outcome' = [c \in Ids(confluence_pages') |-> "none"]
    /\ failedWrite' = {}
    /\ mergeLog' = <<>>
    /\ sentShelf' = <<>>
    /\ trail' = <<"Fetch", "ClassifyBooks">>
    /\ UNCHANGED <<others, config, bs, failures, concurrent>>

\* A read that raises (raise_for_status in fetch_confluence_pages,
\* fetch_bookstack_books, fetch_bookstack_pages, fetch_bookstack_chapters)
\* leaves sync_confluence_pages before the summary.
ReadRaises ==
    /\ \/ pc = "Start" /\ run = 0
       \/ pc = "Pass1" /\ DuplicateNames(existing_books_by_name) # <<>>
       \/ pc = "Pass2" /\ ~dryrun
       \/ pc = "MapPages"
    /\ IF run = 0 THEN MaxFailures > 0 ELSE Budget > 0
    /\ pc' = "Aborted"
    /\ run' = (IF run = 0 THEN 1 ELSE run)
    /\ failures' = failures + 1
    /\ UNCHANGED <<others, config, dryrun, bs, bs0, confluence_pages, existing_books_by_name,
                   existing_book_ids_in_shelf, shelf_data, page_to_book_map, caches,
                   chapter_map, idx, counters, concurrent, writes, outcome,
                   failedWrite, mergeLog, sentShelf, prev, trail>>

\* The first pass as a procedure of the destination w, the books grouped by
\* name, the identity map, the shelf list and the dry-run setting: content
\* is copied only in a real run, the merged books are deleted only in a real
\* run, and neither the map nor the shelf list is touched.
MergePass1(w, byName, map, shelf, dry, F) ==
    LET g == MergeGroups(Thread(w), byName, DuplicateNames(byName), ~dry, F, <<>>)
        m == IF DeletesMerged(LosersOf(g.log), dry)
             THEN DeleteBooks(g.m, LosersOf(g.log), F)
             ELSE g.m
    IN [m |-> m, log |-> g.log, map |-> map, shelf |-> shelf]

\* The second pass as a procedure of the same inputs: it runs in a real run
\* only, and repoints the map and the shelf list from every merged book to
\* the kept one.
MergePass2(w, byName, map, shelf, dry, F) ==
    IF dry
    THEN [m |-> Thread(w), log |-> <<>>, map |-> map, shelf |-> shelf]
    ELSE LET g == MergeGroups(Thread(w), byName, DuplicateNames(byName), TRUE, F, <<>>)
             m == DeleteBooks(g.m, LosersOf(g.log), F)
             fixed == RepairLog([map |-> map, shelf |-> shelf], g.log)
         IN [m |-> m, log |-> g.log, map |-> fixed.map, shelf |-> fixed.shelf]

\* "Checking for duplicate book names and merging": the first pass.
ReconcilePass1 ==
    /\ pc = "Pass1"
    /\ LET calls == MergePass1(bs, existing_books_by_name, page_to_book_map,
                               existing_book_ids_in_shelf, dryrun, {}).m.n
       IN \E F \in SetsUpTo(calls, Budget) :
            LET r == MergePass1(bs, existing_books_by_name, page_to_book_map,
                                existing_book_ids_in_shelf, dryrun, F)
            IN /\ bs' = r.m.w
               /\ writes' = writes + r.m.n
               /\ failures' = failures + Hit(F, r.m.n)
               /\ existing_books_by_name' = KeepOnly(existing_books_by_name, r.log)
               /\ mergeLog' = mergeLog \o TagLog(r.log, 1)
    /\ pc' = "FetchShelf"
    /\ trail' = Append(trail, "ReconcileBooksPass1")
    /\ UNCHANGED <<others, config, dryrun, run, bs0, confluence_pages, existing_book_ids_in_shelf,
                   shelf_data, page_to_book_map, caches, chapter_map, idx, counters,
                   concurrent, outcome, failedWrite, sentShelf, prev>>

\* "Get current shelf data": the members of the shelf, then every book of
\* the workspace is put on the list.
FetchShelf ==
    /\ pc = "FetchShelf"
    /\ IF dryrun
       THEN /\ shelf_data' = FALSE
            /\ existing_book_ids_in_shelf' = <<>>
            /\ failures' = failures
       ELSE \E ok \in BOOLEAN :
            /\ ok \/ Budget > 0
            /\ shelf_data' = ok
            /\ existing_book_ids_in_shelf' =
                 EnsureKept(IF ok THEN SortedIds(bs.shelf) ELSE <<>>, existing_books_by_name)
            /\ failures' = failures + (IF ok THEN 0 ELSE 1)
    /\ pc' = "CreateBooks"
    /\ UNCHANGED <<others, config, dryrun, run, bs, bs0, confluence_pages, existing_books_by_name,
                   page_to_book_map, caches, chapter_map, idx, counters, concurrent,
                   writes, outcome, failedWrite, mergeLog, sentShelf, prev, trail>>

\* Another invocation over the same space creates one of the books while
\* this run is between its listing of the books and its own creates.
ConcurrentCreate ==
    /\ pc = "CreateBooks"
    /\ ~dryrun
    /\ run = 1
    /\ concurrent < MaxConcurrent
    /\ \E top \in Range(TopLevelPages(confluence_pages)) :
         bs' = [bs EXCEPT !.books = @ \cup {Book(bs.nextId, <<top.title>>)},
                          !.nextId = @ + 1]
    /\ concurrent' = concurrent + 1
    /\ UNCHANGED <<others, config, dryrun, run, pc, bs0, confluence_pages, existing_books_by_name,
                   existing_book_ids_in_shelf, shelf_data, page_to_book_map, caches,
                   chapter_map, idx, counters, failures, writes, outcome, failedWrite,
                   mergeLog, sentShelf, prev, trail>>

\* "Create a book for each top-level page"
CreateBooks ==
    /\ pc = "CreateBooks"
    /\ LET tops == TopLevelPages(confluence_pages)
           st0 == [m |-> Thread(bs), map |-> page_to_book_map,
                   dict |-> existing_books_by_name,
                   shelf |-> existing_book_ids_in_shelf, failed |-> {}]
       IN \E F \in SetsUpTo(CreateBooksLoop(st0, tops, dryrun, {}).m.n, Budget) :
            LET st == CreateBooksLoop(st0, tops, dryrun, F)
            IN /\ bs' = st.m.w
               /\ writes' = writes + st.m.n
               /\ failures' = failures + Hit(F, st.m.n)
               /\ page_to_book_map' = st.map
               /\ existing_books_by_name' = st.dict
               /\ existing_book_ids_in_shelf' = st.shelf
               /\ failedWrite' = failedWrite \cup st.failed
    /\ pc' = "Pass2"
    /\ trail' = Append(trail, "CreateBooks")
    /\ UNCHANGED <<others, config, dryrun, run, bs0, confluence_pages, shelf_data, caches,
                   chapter_map, idx, counters, concurrent, outcome, mergeLog,
                   sentShelf, prev>>

\* pass 2 with the dictionary the run built before its creates instead of a
\* fresh listing
BooksAfterCreation_Stale(w, stale) == stale

\* books_by_name_after: the listing is fetched again after the creates
BooksAfterCreation(w, stale) == BooksByName(w)

\* "Checking for duplicate books created in this run": the second pass,
\* over a fresh listing, with the repairs of the map and the shelf list.
ReconcilePass2 ==
    /\ pc = "Pass2"
    /\ IF dryrun
       THEN UNCHANGED <<bs, writes, failures, page_to_book_map,
                        existing_book_ids_in_shelf, mergeLog>>
       ELSE LET byName == BooksAfterCreation(bs, existing_books_by_name)
                calls == MergePass2(bs, byName, page_to_book_map,
                                    existing_book_ids_in_shelf, dryrun, {}).m.n
            IN \E F \in SetsUpTo(calls, Budget) :
                 LET r == MergePass2(bs, byName, page_to_book_map,
                                     existing_book_ids_in_shelf, dryrun, F)
                 IN /\ bs' = r.m.w
                    /\ writes' = writes + r.m.n
                    /\ failures' = failures + Hit(F, r.m.n)
                    /\ page_to_book_map' = r.map
                    /\ existing_book_ids_in_shelf' = r.shelf
                    /\ mergeLog' = mergeLog \o TagLog(r.log, 2)
    /\ pc' = "UpdateShelf"
    /\ trail' = (IF dryrun THEN trail ELSE Append(trail, "ReconcileBooksPass2"))
    /\ UNCHANGED <<others, config, dryrun, run, bs0, confluence_pages, existing_books_by_name,
                   shelf_data, caches, chapter_map, idx, counters, concurrent, outcome,
                   failedWrite, sentShelf, prev>>

\* PUT /api/shelves/{id} with the full list: the shelf holds the listed
\* books that exist
PutShelf(w, list) == [w EXCEPT !.shelf = Range(list) \cap {b.id : b \in w.books}]

\* "update the shelf with all books at once"
UpdateShelf ==
    /\ pc = "UpdateShelf"
    /\ IF dryrun
       THEN UNCHANGED <<bs, writes, failures, shelf_data, sentShelf, trail>>
       ELSE \E getOk \in BOOLEAN, putOk \in BOOLEAN :
            LET have == shelf_data \/ getOk
                bad == (IF ~shelf_data /\ ~getOk THEN 1 ELSE 0)
                       + (IF have /\ ~putOk THEN 1 ELSE 0)
            IN /\ shelf_data => getOk
               /\ ~have => putOk
               /\ bad <= Budget
               /\ shelf_data' = have
               /\ failures' = failures + bad
               /\ writes' = writes + (IF have THEN 1 ELSE 0)
               /\ sentShelf' = IF have THEN Append(sentShelf, existing_book_ids_in_shelf)
                               ELSE sentShelf
               /\ bs' = IF have /\ putOk THEN PutShelf(bs, existing_book_ids_in_shelf)
                        ELSE bs
               /\ trail' = IF have THEN Append(trail, "AttachShelf") ELSE trail
    /\ pc' = "MapPages"
    /\ UNCHANGED <<others, config, dryrun, run, bs0, confluence_pages, existing_books_by_name,
                   existing_book_ids_in_shelf, page_to_book_map, caches, chapter_map,
                   idx, counters, concurrent, outcome, failedWrite, mergeLog, prev>>

\* "Mapping pages to their books", then the caches of existing pages and
\* chapters
MapPages ==
    /\ pc = "MapPages"
    /\ page_to_book_map' = MapPagesToBooks(confluence_pages, page_to_book_map)
    /\ existing_by_confluence_id' = PageNameCache(bs, AllBooks(page_to_book_map'))
    /\ existing_chapter_names' = ChapterNameCache(bs, AllBooks(page_to_book_map'))
    /\ idx' = 1
    /\ pc' = "Nodes"
    /\ UNCHANGED <<others, config, dryrun, run, bs, bs0, confluence_pages, existing_books_by_name,
                   existing_book_ids_in_shelf, shelf_data, chapter_map, counters,
                   failures, concurrent, writes, outcome, failedWrite, mergeLog,
                   sentShelf, prev, trail>>

SortedPages == SortByDepth(confluence_pages)

\* the phase an iteration of the loop belongs to: a node with children is
\* mapped as a container, any other as a leaf
PhaseOf(pages, p) ==
    IF p.id \in PagesWithChildren(pages) THEN "MapContainers" ELSE "MapLeaves"

\* entering a phase: staying in the current one is no new visit
Visit(t, phase) == IF t # <<>> /\ Last(t) = phase THEN t ELSE Append(t, phase)

\* a container is counted as created as soon as its chapter was asked for
ContainerCounts_AlwaysCreated(ok) ==
    [created |-> 1, errors |-> IF ok THEN 0 ELSE 1]

\* what a page with children adds to the counters in a real run: created
\* when create_bookstack_chapter answered with a chapter, errors when not
ContainerCounts(ok) ==
    [created |-> IF ok THEN 1 ELSE 0, errors |-> IF ok THEN 0 ELSE 1]

\* One iteration of "for idx, page in enumerate(sorted_pages, 1)"
ProcessNode ==
    /\ pc = "Nodes"
    /\ idx <= Len(SortedPages)
    /\ LET p == SortedPages[idx]
           book == page_to_book_map[p.id]
           parent == NearestChapter(chapter_map, p)
           isContainer == p.id \in PagesWithChildren(confluence_pages)
       IN IF SkipsNode(existing_by_confluence_id, skip_existing, p)
          THEN /\ skipped' = skipped + 1
               /\ outcome' = [outcome EXCEPT ![p.id] = "skipped"]
               /\ UNCHANGED <<bs, created, errors, caches, chapter_map, writes,
                              failures, failedWrite>>
          ELSE IF book = None
          THEN /\ errors' = errors + 1
               /\ outcome' = [outcome EXCEPT ![p.id] = "error"]
               /\ UNCHANGED <<bs, created, skipped, caches, chapter_map, writes,
                              failures, failedWrite>>
          ELSE IF dryrun
          THEN /\ created' = created + 1
               /\ outcome' = [outcome EXCEPT ![p.id] = "created"]
               /\ chapter_map' = IF isContainer
                                 THEN [chapter_map EXCEPT ![p.id] = DryrunChapterId]
                                 ELSE chapter_map
               /\ UNCHANGED <<bs, skipped, errors, caches, writes, failures, failedWrite>>
          ELSE IF isContainer
          THEN LET nm == ChapterName(confluence_pages, existing_chapter_names, p)
               IN \E F \in SetsUpTo(3, Budget) :
                    LET r == WriteContainer(Thread(bs), nm, book, p.owner, F)
                        ok == r.chapter # None
                    IN /\ bs' = r.m.w
                       /\ writes' = writes + r.m.n
                       /\ failures' = failures + Hit(F, r.m.n)
                       /\ F \subseteq 1..r.m.n
                       /\ chapter_map' = IF ok THEN [chapter_map EXCEPT ![p.id] = r.chapter]
                                         ELSE chapter_map
                       /\ existing_chapter_names' =
                            IF ok THEN existing_chapter_names \cup {Lower(nm)}
                            ELSE existing_chapter_names
                       /\ created' = created + ContainerCounts(ok).created
                       /\ errors' = errors + ContainerCounts(ok).errors
                       /\ outcome' = [outcome EXCEPT ![p.id] = IF ok THEN "created" ELSE "error"]
                       /\ failedWrite' = IF ok THEN failedWrite ELSE failedWrite \cup {p.id}
                       /\ UNCHANGED <<skipped, existing_by_confluence_id>>
          ELSE \E F \in SetsUpTo(2, Budget) :
                 LET r == WriteLeaf(Thread(bs), <<p.title>>, book, parent, p.owner, F)
                     ok == r.page # None
                 IN /\ bs' = r.m.w
                    /\ writes' = writes + r.m.n
                    /\ failures' = failures + Hit(F, r.m.n)
                    /\ F \subseteq 1..r.m.n
                    /\ existing_by_confluence_id' =
                         IF ok THEN existing_by_confluence_id \cup {<<p.title>>}
                         ELSE existing_by_confluence_id
                    /\ created' = IF ok THEN created + 1 ELSE created
                    /\ errors' = IF ok THEN errors ELSE errors + 1
                    /\ outcome' = [outcome EXCEPT ![p.id] = IF ok THEN "created" ELSE "error"]
                    /\ failedWrite' = IF ok THEN failedWrite ELSE failedWrite \cup {p.id}
                    /\ UNCHANGED <<skipped, existing_chapter_names, chapter_map>>
    /\ idx' = idx + 1
    /\ trail' = Visit(trail, PhaseOf(confluence_pages, SortedPages[idx]))
    /\ UNCHANGED <<others, config, dryrun, run, pc, bs0, confluence_pages, existing_books_by_name,
                   existing_book_ids_in_shelf, shelf_data, page_to_book_map, updated,
                   concurrent, mergeLog, sentShelf, prev>>

\* "SYNC PAGES SUMMARY"
Summarize ==
    /\ pc = "Nodes"
    /\ idx > Len(SortedPages)
    /\ pc' = "Done"
    /\ trail' = Append(trail, "Summarize")
    /\ UNCHANGED <<others, config, dryrun, run, bs, bs0, confluence_pages, existing_books_by_name,
                   existing_book_ids_in_shelf, shelf_data, page_to_book_map, caches,
                   chapter_map, idx, counters, failures, concurrent, writes, outcome,
                   failedWrite, mergeLog, sentShelf, prev>>

Next ==
    \/ StartRun
    \/ ReadRaises
    \/ ReconcilePass1
    \/ FetchShelf
    \/ ConcurrentCreate
    \/ CreateBooks
    \/ ReconcilePass2
    \/ UpdateShelf
    \/ MapPages
    \/ ProcessNode
    \/ Summarize

Spec == Init /\ [][Next]_allvars

\* ----------------------------------------------------------------- claims
Leaves == Ids(confluence_pages) \ PagesWithChildren(confluence_pages)

AncestorIds(p) == {p.ancestors[j].id : j \in DOMAIN p.ancestors}

DescendantsOf(x) ==
    {c \in Ids(confluence_pages) : x \in AncestorIds(PageById(confluence_pages, c))}

\* a real second run after a real first run, all calls of both answered
\* with success, at its summary
SecondRealRunDone ==
    /\ run = 2 /\ pc = "Done"
    /\ ~dryrun /\ ~prev.dryrun
    /\ failures = 0 /\ concurrent = 0

\* C1: with skip-existing set and every destination call succeeding, the
\* second of two runs over the same source data creates no book, chapter
\* or page.
C1_SecondRunCreatesNothing ==
    (SecondRealRunDone /\ skip_existing) =>
        /\ bs.books = bs0.books
        /\ bs.chapters = bs0.chapters
        /\ bs.pages = bs0.pages

\* C2: with skip-existing set, the second of two runs over the same source
\* data skips every node without children: skipped leaves = all leaves, and
\* no page is created or rewritten for a leaf.
C2_SecondRunSkipsEveryLeaf ==
    (SecondRealRunDone /\ skip_existing) =>
        \A c \in Leaves : outcome[c] = "skipped"

UniqueBookNames == \A b1, b2 \in bs.books : b1.name = b2.name => b1.id = b2.id

\* the state in which reconciliation pass k of a real run has just completed
AfterPass(k) == ~dryrun /\ pc = (IF k = 1 THEN "FetchShelf" ELSE "UpdateShelf")

\* C3: when a reconciliation pass of a real run has completed, no two books
\* of the workspace share a name, whatever the destination answered.
C3_OneBookPerNameAfterPass == (AfterPass(1) \/ AfterPass(2)) => UniqueBookNames

RECURSIVE SumTotals(_)
SumTotals(cands) == IF cands = <<>> THEN 0 ELSE cands[1].total + SumTotals(Tail(cands))

MergedIn(k) == {mergeLog[i] : i \in {j \in DOMAIN mergeLog : mergeLog[j].pass = k}}

\* C4: when a pass has merged N >= 2 books of one name with content counts
\* c1 >= ... >= cN, exactly one book of that name remains and it holds
\* c1 + ... + cN pages and chapters.
C4_MergeKeepsAllContent ==
    \A k \in {1, 2} :
        AfterPass(k) =>
            \A rec \in MergedIn(k) :
                /\ {b.id : b \in {x \in bs.books : x.name = rec.name}} = {rec.keep}
                /\ ContentCount(bs, rec.keep) = SumTotals(rec.cands)

TotalIn(cands, id) == cands[CHOOSE i \in DOMAIN cands : cands[i].id = id].total

CandIds(rec) == {rec.cands[i].id : i \in DOMAIN rec.cands}

\* C5: in both passes the kept book has the greatest count of pages and
\* chapters among the books of its name, the smallest id among those with
\* that count, and every other book of the name is a loser; in pass 1 the
\* books and counts are those of the workspace the run found.
C5_SurvivorIsRichestThenOldest ==
    \A i \in DOMAIN mergeLog :
        LET rec == mergeLog[i]
            top == TotalIn(rec.cands, rec.keep)
        IN /\ rec.keep \in CandIds(rec)
           /\ \A j \in DOMAIN rec.cands :
                /\ rec.cands[j].total <= top
                /\ rec.cands[j].total = top => rec.keep <= rec.cands[j].id
           /\ Range(rec.losers) = CandIds(rec) \ {rec.keep}
           /\ Len(rec.losers) = Len(rec.cands) - 1
           /\ rec.pass = 1 =>
                /\ CandIds(rec) = {b.id : b \in {x \in bs0.books : x.name = rec.name}}
                /\ \A j \in DOMAIN rec.cands :
                     rec.cands[j].total = ContentCount(bs0, rec.cands[j].id)

\* a run that merged in both passes, once with the richest book not the
\* oldest and once with a tie for the greatest count
C5_Witness ==
    /\ \E r \in MergedIn(1) : \E l \in Range(r.losers) : l < r.keep
    /\ \E r \in MergedIn(1) \cup MergedIn(2) :
         \E l \in Range(r.losers) : TotalIn(r.cands, l) = TotalIn(r.cands, r.keep)
    /\ MergedIn(2) # {}

AllLosers == UNION {Range(mergeLog[i].losers) : i \in DOMAIN mergeLog}

MapValues == {page_to_book_map[c] : c \in DOMAIN page_to_book_map}

\* C6: once the second pass of a real run is over, no entry of
\* page_to_book_map and no entry of a shelf list that is sent refers to a
\* book merged away in either pass, and a source page whose book name was
\* merged in pass 2 is mapped to the kept book.
C6_NoReferenceToLoser ==
    (~dryrun /\ pc \in {"UpdateShelf", "MapPages", "Nodes", "Done"}) =>
        /\ AllLosers \cap MapValues = {}
        /\ \A i \in DOMAIN sentShelf : AllLosers \cap Range(sentShelf[i]) = {}
        /\ \A rec \in MergedIn(2) :
             \A top \in Range(TopLevelPages(confluence_pages)) :
                (<<top.title>> = rec.name /\ page_to_book_map[top.id] # None)
                    => page_to_book_map[top.id] = rec.keep

\* a finished real run that merged in both passes, whose own book lost in
\* pass 2, and that sent a shelf list holding the kept book
C6_Witness ==
    /\ ~dryrun /\ pc = "Done"
    /\ MergedIn(1) # {}
    /\ \E rec \in MergedIn(2) :
         /\ rec.keep \in MapValues
         /\ \E l \in Range(rec.losers) : l >= bs0.nextId
         /\ \E i \in DOMAIN sentShelf : rec.keep \in Range(sentShelf[i])

\* C7: a dry run sends no create, update or delete and no shelf list: the
\* workspace stays as the run found it.
C7_DryRunWritesNothing ==
    dryrun => (bs = bs0 /\ writes = 0 /\ sentShelf = <<>>)

\* a finished dry run over a workspace with duplicate books that planned
\* books, chapters and pages
C7_Witness ==
    /\ dryrun /\ pc = "Done"
    /\ mergeLog # <<>>
    /\ DryrunBookId \in MapValues
    /\ \E c \in DOMAIN chapter_map : chapter_map[c] = DryrunChapterId
    /\ \E c \in Leaves : outcome[c] = "created"

\* C8: the counts of a dry run equal the counts of the real run over the
\* same source data and workspace in which every write succeeds.
C8_DryRunCountsEqualRealRun ==
    (run = 2 /\ pc = "Done" /\ prev.dryrun /\ ~dryrun /\ failures = 0) =>
        /\ prev.created = created
        /\ prev.skipped = skipped
        /\ prev.errors = errors

\* C9: a run that has started reaches its summary: it is never left
\* before the summary by a failing destination or source read.
C9_RunReachesSummary == pc # "Aborted"

\* C10: when the create call of node X failed, every descendant of X whose
\* own create call did not fail is written (created, or skipped as
\* existing) by the end of the run.
C10_DescendantsOfFailedNodeWritten ==
    (pc = "Done" /\ ~dryrun) =>
        \A x \in failedWrite :
            \A d \in DescendantsOf(x) \ failedWrite :
                outcome[d] \in {"created", "skipped"}

\* C14: no chapter is created for a BookRoot: a node with children and at
\* most two ancestors produces a book and nothing else; a node with children
\* and more ancestors is a chapter, any other node a leaf.
C14_BookRootGetsNoChapter ==
    (~dryrun /\ pc \in {"Nodes", "Done"}) =>
        \A i \in DOMAIN confluence_pages :
            LET p == confluence_pages[i]
            IN /\ IsBookRoot(confluence_pages, p) => chapter_map[p.id] = None
               /\ (chapter_map[p.id] # None) =>
                    (p.id \in PagesWithChildren(confluence_pages)
                     /\ Len(p.ancestors) > MaxBookDepth)

\* C15: for the chain A (1) -> B (2) -> C (3) on an empty workspace with
\* every write succeeding, nodes 1 and 2 each produce a book and page C lies
\* directly in the book of node 2, in no chapter.
C15_LeafDirectlyUnderBook ==
    (scn = 1 /\ ws = 1 /\ run = 1 /\ ~dryrun /\ pc = "Done"
     /\ failures = 0 /\ concurrent = 0) =>
        /\ page_to_book_map[1] # None /\ page_to_book_map[2] # None
        /\ page_to_book_map[1] # page_to_book_map[2]
        /\ \E pg \in bs.pages :
             pg.name = <<"C">> /\ pg.book = page_to_book_map[2] /\ pg.chapter = None

\* the order of the phases as the specification gives it
PhaseOrder ==
    <<"Fetch", "ClassifyBooks", "CreateBooks", "ReconcileBooksPass1", "AttachShelf",
      "ReconcileBooksPass2", "MapContainers", "MapLeaves", "Summarize">>

PhasePos(ph) == FirstIndex(PhaseOrder, ph)

\* C19: the phases a run has executed are in the order Fetch, ClassifyBooks,
\* CreateBooks, ReconcileBooksPass1, AttachShelf, ReconcileBooksPass2,
\* MapContainers, MapLeaves, Summarize, each entered at most once.
C19_PhasesInSpecOrder ==
    \A i, j \in DOMAIN trail : i < j => PhasePos(trail[i]) < PhasePos(trail[j])

Times(t, ph) == Cardinality({i \in DOMAIN t : t[i] = ph})

Before(t, a, b) == \A i, j \in DOMAIN t : (t[i] = a /\ t[j] = b) => i < j

\* C20: a real run reconciles exactly twice, once before its book creates
\* and once after them, and a book that still shares its name with another
\* after the second pass was among the books that pass merged; when no call
\* failed no name is left with two books.
C20_ReconcilesBeforeAndAfterCreates ==
    /\ Times(trail, "ReconcileBooksPass1") <= 1
    /\ Times(trail, "ReconcileBooksPass2") <= 1
    /\ Times(trail, "CreateBooks") <= 1
    /\ Before(trail, "ReconcileBooksPass1", "CreateBooks")
    /\ Before(trail, "CreateBooks", "ReconcileBooksPass2")
    /\ Times(trail, "CreateBooks") = 1 => Times(trail, "ReconcileBooksPass1") = 1
    /\ (~dryrun /\ pc \in {"UpdateShelf", "MapPages", "Nodes", "Done"}) =>
         /\ Times(trail, "CreateBooks") = 1
         /\ Times(trail, "ReconcileBooksPass2") = 1
         /\ \A b1, b2 \in bs.books :
              (b1.name = b2.name /\ b1.id # b2.id) =>
                 \E rec \in MergedIn(2) :
                    rec.name = b1.name /\ {b1.id, b2.id} \subseteq CandIds(rec)
         /\ failures = 0 => UniqueBookNames

\* a finished real run during which another invocation created a book of a
\* name this run created too, and whose second pass merged the two
C20_Witness ==
    /\ ~dryrun /\ pc = "Done" /\ concurrent = 1
    /\ \E rec \in MergedIn(2) :
         /\ \A c \in CandIds(rec) : c >= bs0.nextId
         /\ Len(rec.cands) = 2
    /\ UniqueBookNames

\* C11: no step lowers the shared delay: it never falls and is never set
\* back to its initial value once it has grown.
C11_DelayNeverFalls == [][rate_limit_delay' >= rate_limit_delay]_allvars

\* a later call that succeeded at once while the delay stood above its
\* initial value
C11_Witness ==
    /\ started = MaxCalls
    /\ call.result = "ok" /\ call.escalations = 0
    /\ rate_limit_delay > InitialRateLimitDelay

RECURSIVE Pow(_, _)
Pow(b, k) == IF k = 0 THEN 1 ELSE b * Pow(b, k - 1)

\* C12: after k rate-limit responses handled by handle_rate_limit the delay
\* is min(initial * 1.5^k, cap): after three it is initial * 27/8, and it
\* never exceeds the cap.
C12_DelayIsInitialTimesPowerCapped ==
    /\ rate_limit_delay * Pow(2, handled) =
         Min(InitialRateLimitDelay * Pow(3, handled),
             max_rate_limit_delay * Pow(2, handled))
    /\ handled = 3 => rate_limit_delay * 8 = InitialRateLimitDelay * 27
    /\ rate_limit_delay <= max_rate_limit_delay

\* more than three rate-limit responses were handled and the delay stands
\* at the cap
C12_Witness == handled > 3 /\ rate_limit_delay = max_rate_limit_delay

\* C13: a wrapped write escalates once and retries once exactly when its
\* first attempt was answered with 429, never attempts a third time, and
\* reports failure when the retry is not answered with success.
C13_OneEscalationOneRetry ==
    call.kind \in WrappedWrites =>
        /\ call.attempts <= 2
        /\ call.escalations = (IF call.first = "rate_limited" THEN 1 ELSE 0)
        /\ call.first \in {"ok", "error"} => (call.attempts = 1 /\ call.second = "none")
        /\ (call.at = "done" /\ call.first = "rate_limited") =>
              /\ call.attempts = 2
              /\ call.result = (IF call.second = "ok" THEN "ok" ELSE "failed")
        /\ (call.at = "done" /\ call.first = "ok") => call.result = "ok"

\* an update of a page whose write was answered with 429 twice
C13_Witness ==
    /\ call.kind = "update_page" /\ call.at = "done"
    /\ call.first = "rate_limited" /\ call.second = "rate_limited"
    /\ call.result = "failed" /\ call.attempts = 2

\* the configuration lacks the source scope, the destination root or
\* credentials
MissingConfiguration ==
    \/ ~settings.confluence_credentials
    \/ ~settings.bookstack_credentials
    \/ ~settings.space_key
    \/ (~settings.shelf_id /\ ~settings.book_id)

\* C16: with required configuration missing no request is sent to the
\* source or the destination, no shelf is created and the run does not go
\* on to the sync.
C16_MissingConfigurationStopsBeforeNetwork ==
    MissingConfiguration =>
        /\ network = <<>>
        /\ boot_shelf # "created"
        /\ boot \notin {"fetch", "syncing"}

\* C17: an input without a code macro that has a plain-text body comes
\* back from the transcoder unchanged, piece for piece.
C17_PassthroughWithoutCodeMacro ==
    (converted.done /\ \A i \in DOMAIN html : html[i] # "code_macro") =>
        converted.out = html

C21_PassesAgree ==
    pc \in {"Pass1", "Pass2"} =>
        LET byName == IF pc = "Pass1" THEN existing_books_by_name
                      ELSE BooksAfterCreation(bs, existing_books_by_name)
            one == MergePass1(bs, byName, page_to_book_map,
                              existing_book_ids_in_shelf, dryrun, {})
            two == MergePass2(bs, byName, page_to_book_map,
                              existing_book_ids_in_shelf, dryrun, {})
        IN /\ one.m.w = two.m.w
           /\ one.map = two.map
           /\ one.shelf = two.shelf

\* the position of source id x in the order of the loop
PositionOf(x) == FirstIndex([i \in DOMAIN SortedPages |-> SortedPages[i].id], x)

\* C22: in the node loop a node is processed after every node of its
\* ancestor chain, and an ancestor whose write succeeded is by then in the
\* chapter map (and, being mapped to a book, in the book map).
C22_AncestorsProcessedFirst ==
    pc = "Nodes" =>
        \A i \in DOMAIN SortedPages :
            \A a \in AncestorIds(SortedPages[i]) \cap Ids(confluence_pages) :
                /\ PositionOf(a) < i
                /\ (i <= idx /\ outcome[a] = "created") =>
                       /\ chapter_map[a] # None
                       /\ page_to_book_map[a] # None

\* the loop stands at a node below a container that was written: a real
\* run, the container's chapter recorded, and a phantom among the ancestors
C22_Witness ==
    /\ pc = "Nodes"
    /\ ~dryrun
    /\ idx \in DOMAIN SortedPages
    /\ \E a \in AncestorIds(SortedPages[idx]) \cap Ids(confluence_pages) :
           /\ outcome[a] = "created"
           /\ chapter_map[a] > 0
    /\ Len(SortedPages) > Len(Sources[scn])

\* the nodes the synthesis appended to the fetched pages
Phantoms == SubSeq(confluence_pages, Len(Sources[scn]) + 1, Len(confluence_pages))

\* C23: after phantom synthesis every chain entry of every node is a node;
\* each phantom has the id and the title of a chain entry of a fetched page
\* and exactly the entries before it as its own chain, and is classified as
\* having children.
C23_PhantomsCloseTheTree ==
    confluence_pages # <<>> =>
        /\ \A i \in DOMAIN confluence_pages :
               AncestorIds(confluence_pages[i]) \subseteq Ids(confluence_pages)
        /\ \A k \in DOMAIN Phantoms :
               /\ \E i \in DOMAIN Sources[scn] :
                      LET anc == Sources[scn][i].ancestors
                      IN \E j \in DOMAIN anc :
                             /\ anc[j].id = Phantoms[k].id
                             /\ anc[j].title = Phantoms[k].title
                             /\ Phantoms[k].ancestors = SubSeq(anc, 1, j - 1)
               /\ Phantoms[k].id \in PagesWithChildren(confluence_pages)

\* a fetched page whose chain names two pages the listing did not return:
\* both were synthesised, the second below the first
C23_Witness ==
    /\ Len(Phantoms) >= 2
    /\ \E k \in DOMAIN Phantoms : Phantoms[k].ancestors # <<>>

\* the books of name nm in the workspace w
Named(w, nm) == {b \in w.books : b.name = nm}

\* C24: in the book creation step a BookRoot whose title is exactly the name
\* of a book the workspace held when the run listed it creates no book, is
\* mapped to the id of such a book, which still exists, and that id is on
\* the shelf list; the step creates a book only for a title no listed book
\* has, and at most one per title.
C24_ReusesBookOfSameName ==
    [][(pc = "CreateBooks" /\ pc' = "Pass2") =>
          \A t \in Range(TopLevelPages(confluence_pages)) :
              LET listed == Named(bs0, <<t.title>>)
                  new == Named(bs', <<t.title>>) \ Named(bs, <<t.title>>)
              IN /\ listed # {} =>
                       /\ new = {}
                       /\ page_to_book_map'[t.id] \in {b.id : b \in listed}
                       /\ page_to_book_map'[t.id] \in {b.id : b \in bs'.books}
                       /\ page_to_book_map'[t.id] \in Range(existing_book_ids_in_shelf')
                 /\ new # {} => listed = {} /\ Cardinality(new) = 1]_allvars

\* after the creation step of a real run one BookRoot is mapped to a book
\* the workspace already held and another to a book the step created
C24_Witness ==
    /\ pc = "Pass2"
    /\ ~dryrun
    /\ \E t, u \in Range(TopLevelPages(confluence_pages)) :
           /\ \E b \in Named(bs0, <<t.title>>) : page_to_book_map[t.id] = b.id
           /\ Named(bs0, <<u.title>>) = {}
           /\ \E b \in Named(bs, <<u.title>>) : page_to_book_map[u.id] = b.id

\* C25: a container's chapter keeps the node's title unless a chapter of the
\* target book already has that name (compared case-insensitively); a chapter
\* of the same name in another book causes no rename; on a collision the
\* name is '<immediate parent title> - <node title>'.
C25_ChapterNameScopedToBook ==
    [][(pc = "Nodes" /\ idx' = idx + 1 /\ bs'.chapters # bs.chapters) =>
          LET p == SortedPages[idx]
              c == CHOOSE x \in bs'.chapters \ bs.chapters : TRUE
              taken == {Lower(x.name) : x \in {y \in bs.chapters : y.book = c.book}}
          IN IF Lower(<<p.title>>) \notin taken
             THEN c.name = <<p.title>>
             ELSE p.ancestors # <<>> =>
                      c.name = <<PageById(confluence_pages, Last(p.ancestors).id).title,
                                 p.title>>]_allvars

RECURSIVE WalkOutward(_, _, _)
\* from entry k of the chain anc towards the root: the first entry of the
\* chapter map cm that is met, None when the root is passed
WalkOutward(cm, anc, k) ==
    IF k = 0 THEN None
    ELSE IF cm[anc[k].id] # None THEN cm[anc[k].id]
    ELSE WalkOutward(cm, anc, k - 1)

\* C26: the page created for a leaf lies in the chapter of the nearest
\* ancestor that has a chapter-map entry, walking from the immediate parent
\* outward, and in no chapter when no ancestor has an entry.
C26_LeafInNearestChapter ==
    [][(/\ pc = "Nodes"
        /\ idx' = idx + 1
        /\ SortedPages[idx].id \in Leaves
        /\ \E x \in bs'.pages : x.id \notin {y.id : y \in bs.pages}) =>
          LET p == SortedPages[idx]
              new == CHOOSE x \in bs'.pages : x.id \notin {y.id : y \in bs.pages}
          IN new.chapter = WalkOutward(chapter_map, p.ancestors, Len(p.ancestors))]_allvars

\* a leaf below two containers that both have a chapter was written into
\* the chapter of the inner one
C26_Witness ==
    /\ pc = "Nodes"
    /\ \E c \in Leaves :
           LET p == PageById(confluence_pages, c)
           IN /\ Len(p.ancestors) >= 2
              /\ \A j \in DOMAIN p.ancestors : chapter_map[p.ancestors[j].id] > 0
              /\ chapter_map[p.ancestors[1].id] # chapter_map[Last(p.ancestors).id]
              /\ outcome[c] = "created"
              /\ \E x \in bs.pages :
                     /\ x.name = <<p.title>>
                     /\ x.chapter = chapter_map[Last(p.ancestors).id]

\* C27: every destination write that fails while a node is processed
\* increments the errors counter, the create of the 'Introduction' page and
\* the follow-up update included.
C27_FailedWriteCountsAsError ==
    [][(pc = "Nodes" /\ idx' = idx + 1) =>
          errors' - errors >= failures' - failures]_allvars

\* in a sequence of page calls every create that carried a chapter or an
\* owner is directly followed by an update of that page with the same two
Reasserted(sent) ==
    \A i \in DOMAIN sent :
        (sent[i].op = "create" /\ (sent[i].chapter # None \/ sent[i].owner # None)) =>
            /\ i < Len(sent)
            /\ sent[i + 1] = [sent[i] EXCEPT !.op = "update"]

\* the page calls of the iteration of the loop the run stands before, when
\* the calls with the ordinals F are refused
NodeCalls(F) ==
    LET p == SortedPages[idx]
        book == page_to_book_map[p.id]
    IN IF p.id \in PagesWithChildren(confluence_pages)
       THEN WriteContainer(Thread(bs), ChapterName(confluence_pages, existing_chapter_names, p),
                           book, p.owner, F).m.sent
       ELSE WriteLeaf(Thread(bs), <<p.title>>, book, NearestChapter(chapter_map, p),
                      p.owner, F).m.sent

\* the thread of the merge pass the run stands before
MergeThread(F) ==
    IF pc = "Pass1"
    THEN MergePass1(bs, existing_books_by_name, page_to_book_map,
                    existing_book_ids_in_shelf, dryrun, F).m
    ELSE MergePass2(bs, BooksAfterCreation(bs, existing_books_by_name), page_to_book_map,
                    existing_book_ids_in_shelf, dryrun, F).m

\* C28: every page create that succeeds with a chapter id or an owner id,
\* for a leaf page, an 'Introduction' page or a page copied during a merge,
\* is followed, before any other page call and so before the next node, by
\* an update of that page carrying the same chapter and owner, whichever
\* calls are refused.
C28_CreateFollowedByUpdate ==
    /\ (pc = "Nodes" /\ idx \in DOMAIN SortedPages /\ ~dryrun
        /\ page_to_book_map[SortedPages[idx].id] # None) =>
           \A F \in SetsUpTo(3, MaxFailures) : Reasserted(NodeCalls(F))
    /\ (pc \in {"Pass1", "Pass2"} /\ ~dryrun) =>
           \A F \in SetsUpTo(MergeThread({}).n, MaxFailures) :
               Reasserted(MergeThread(F).sent)

\* a leaf with an owner was written into a chapter, and a merge has copied
\* a page into a copied chapter of the kept book
C28_Witness ==
    /\ pc = "Nodes"
    /\ ~dryrun
    /\ \E c \in Leaves :
           /\ outcome[c] = "created"
           /\ \E x \in bs.pages :
                  /\ x.name = <<PageById(confluence_pages, c).title>>
                  /\ x.chapter # None
                  /\ x.owner # None
    /\ \E i \in DOMAIN mergeLog :
           \E x \in bs.pages \ bs0.pages :
               /\ x.book = mergeLog[i].keep
               /\ x.chapter # None
               /\ x.chapter \notin {y.id : y \in bs0.chapters}
               /\ x.name \in {y.name : y \in bs0.pages}

\* C29: every mutating destination call, the shelf create and the shelf
\* membership update included, answers a 429 to its first attempt with one
\* escalation of the delay and one retry.
C29_EveryWriteRetriesOn429 ==
    (call.kind \in WrappedWrites \cup UnwrappedWrites /\ call.first = "rate_limited") =>
        /\ call.escalations = 1
        /\ call.at = "done" => call.attempts = 2

\* C30: however often the destination answers 429, every paced call, the
\* chapter listing included, ends after a bounded number of attempts: none
\* makes more than the one attempt and the one retry of the backoff policy.
C30_AttemptsBounded == call.kind \in CallKinds => call.attempts <= 2

\* the ids of a set of entities
IdsOf(S) == {e.id : e \in S}

\* C31: during a sync run a DELETE is sent only for a book that lost a
\* merge of that pass, and the only entities that disappear from the
\* workspace are the losers of this run's merges with their own chapters
\* and pages: no other book, no other chapter or page, is deleted.
C31_OnlyMergeLosersDeleted ==
    [][/\ LET gone == IdsOf(bs.books) \ IdsOf(bs'.books)
          IN /\ gone \subseteq UNION {Range(mergeLog'[i].losers) : i \in DOMAIN mergeLog'}
             /\ \A c \in bs.chapters : c.id \notin IdsOf(bs'.chapters) => c.book \in gone
             /\ \A p \in bs.pages : p.id \notin IdsOf(bs'.pages) => p.book \in gone
       /\ (pc \in {"Pass1", "Pass2"} /\ pc' # pc) =>
              \A F \in SetsUpTo(MergeThread({}).n, MaxFailures) :
                  LET byName == IF pc = "Pass1" THEN existing_books_by_name
                                ELSE BooksAfterCreation(bs, existing_books_by_name)
                  IN \A d \in Range(MergeThread(F).deleted) :
                         \E nm \in Range(DuplicateNames(byName)) :
                             /\ d \in Range(DictGet(byName, nm))
                             /\ d # SortCands(Candidates(bs, DictGet(byName, nm)))[1].id
      ]_allvars

\* a finished real run that deleted a book of the workspace it started on,
\* while another book of that name is still there
C31_Witness ==
    /\ pc = "Done"
    /\ ~dryrun
    /\ \E b \in bs0.books :
           /\ b.id \notin IdsOf(bs.books)
           /\ \E k \in bs.books : k.name = b.name

RECURSIVE CountOfGone(_, _, _)
\* the pages and chapters the workspace w holds in those books of the
\* sequence ids that are in the set gone
CountOfGone(w, ids, gone) ==
    IF ids = <<>> THEN 0
    ELSE (IF ids[1] \in gone THEN ContentCount(w, ids[1]) ELSE 0)
         + CountOfGone(w, Tail(ids), gone)

\* C32: a loser is deleted only after each of its chapters and pages was
\* copied into the survivor: in a merge pass the survivor gains at least the
\* pages and chapters of every loser the pass deletes, so no content is lost.
C32_LoserDeletedOnlyAfterFullCopy ==
    [][(pc \in {"Pass1", "Pass2"} /\ pc' # pc) =>
          LET gone == IdsOf(bs.books) \ IdsOf(bs'.books)
          IN \A i \in DOMAIN mergeLog' :
                 i > Len(mergeLog) =>
                     ContentCount(bs', mergeLog'[i].keep) >=
                         ContentCount(bs, mergeLog'[i].keep)
                         + CountOfGone(bs, mergeLog'[i].losers, gone)]_allvars

\* C33: within one run the content of a loser is copied into its survivor
\* at most once: a book whose content the first pass of a real run copied is
\* not a loser of the second pass again, and the survivor never holds more
\* than the pages and chapters the candidates of the first pass held.
C33_LoserCopiedAtMostOnce ==
    ~dryrun =>
        \A r1 \in MergedIn(1) :
            /\ \A r2 \in MergedIn(2) : Range(r1.losers) \cap Range(r2.losers) = {}
            /\ pc \in {"UpdateShelf", "MapPages"} =>
                   ContentCount(bs, r1.keep) <= SumTotals(r1.cands)

\* C34: every page the sync creates with a chapter id is created in the
\* book that owns that chapter: each page of the workspace that lies in a
\* chapter lies in the book of that chapter.
C34_PageInBookOfItsChapter ==
    \A p \in bs.pages :
        p.chapter # None =>
            \E c \in bs.chapters : c.id = p.chapter /\ c.book = p.book

\* the books kept by the merges of this run in which book b lost
KeptFor(b) == {mergeLog[i].keep : i \in {j \in DOMAIN mergeLog : b \in Range(mergeLog[j].losers)}}

\* the books this run's BookRoots are mapped to
BooksOfRoots ==
    {page_to_book_map[t.id] : t \in Range(TopLevelPages(confluence_pages))} \ {None}

\* C35: a membership list the run sends to the shelf holds every book that
\* was a member before the run, a merged one replaced by its survivor, and
\* beside those only books mapped from this run's BookRoots: no member is
\* dropped and no other book of the workspace is added.
C35_ShelfListIsMembersPlusRoots ==
    \A i \in DOMAIN sentShelf :
        LET list == Range(sentShelf[i])
        IN /\ \A b \in bs0.shelf :
                  IF b \in AllLosers THEN KeptFor(b) \cap list # {} ELSE b \in list
           /\ \A b \in list :
                  \/ b \in bs0.shelf
                  \/ b \in BooksOfRoots
                  \/ \E l \in bs0.shelf : b \in KeptFor(l)

\* C36: every node the loop has processed, fetched or phantom, is counted
\* exactly once: the four counters add up to the number of nodes processed
\* so far, and at the summary to the number of all nodes.
C36_EveryNodeCountedOnce ==
    /\ pc = "Nodes" => created + updated + skipped + errors = idx - 1
    /\ pc = "Done" =>
           /\ created + updated + skipped + errors = Len(confluence_pages)
           /\ \A c \in Ids(confluence_pages) : outcome[c] # "none"

\* the summary of a real run over fetched pages and phantoms in which a
\* node was created and the write of another failed
C36_Witness ==
    /\ pc = "Done"
    /\ ~dryrun
    /\ Len(Phantoms) > 0
    /\ created > 0
    /\ errors > 0

\* C37: the book creation loop of a run creates no two books of one name,
\* and BookRoots that share a title are all mapped to one book id.
C37_OneBookPerSharedTitle ==
    [][(pc = "CreateBooks" /\ pc' = "Pass2") =>
          /\ \A b1, b2 \in bs'.books \ bs.books : b1.name = b2.name => b1.id = b2.id
          /\ \A t, u \in Range(TopLevelPages(confluence_pages)) :
                 t.title = u.title => page_to_book_map'[t.id] = page_to_book_map'[u.id]
      ]_allvars

\* C38: the skip-existing lookup applies to leaves only: once the loop has
\* handled a node with children whose book is resolved, in a run in which no
\* call failed, the node has an entry in the chapter map, whatever pages of
\* its title are already migrated.
C38_ContainerAlwaysGetsChapter ==
    (pc \in {"Nodes", "Done"} /\ failures = 0) =>
        \A c \in PagesWithChildren(confluence_pages) :
            (outcome[c] # "none" /\ page_to_book_map[c] # None) => chapter_map[c] # None

\* the positions of the chain of p that hold a BookRoot
RootsAbove(p) ==
    {j \in DOMAIN p.ancestors :
        /\ p.ancestors[j].id \in Ids(confluence_pages)
        /\ IsBookRoot(confluence_pages, PageById(confluence_pages, p.ancestors[j].id))}

=============================================================================
